---------------------------- MODULE Spec2Model ----------------------------
(***************************************************************************)
(* DCTP (Dual-Channel Transport Protocol): the selective-repeat Sender,    *)
(* the reassembling Receiver, the Transport that drives them and the lossy *)
(* datagram network between two Transports, and the wire codec of Packet,  *)
(* modelled from sender.py, receiver.py, transport.py and packet.py of     *)
(* src/src/dctp.                                                           *)
(*                                                                         *)
(* Each method of the Python classes is an operator that maps the object's *)
(* state (a record with the attribute names of the class) and the call's   *)
(* arguments to the new state and the returned value; each action of a     *)
(* specification is one call of a method. SpecRecv drives a Receiver       *)
(* alone, SpecSack a Receiver with many buffered spans, SpecSend a Sender   *)
(* alone, SpecSeg a Sender with a larger MSS, SpecRto a Sender whose       *)
(* feedback arrives late,                                                  *)
(* SpecSys the two joined by the network, SpecLive the joined system under *)
(* fair scheduling, SpecDrain the same with an application inside drain(), *)
(* SpecCodec the byte-level codec, SpecPoll a Transport reading the        *)
(* datagrams of its socket and learning its peer, and SpecClose the system *)
(* of SpecDrain with a Transport that may lack a peer or be closed.        *)
(* In the specifications of two Transports, peer and sock_open are those   *)
(* of the sending one.                                                     *)
(***************************************************************************)
EXTENDS Integers, Sequences, FiniteSets, TLC

VARIABLES
    snd,        \* the Sender object (sender.py:90-142)
    rcv,        \* the Receiver object (receiver.py:28-34)
    now,        \* the value the injected clock now_ms() returns
    net,        \* the frames the datagram network holds
    offered,    \* number of application bytes offer() has accepted so far
    rel_stream, \* history: the bytes offer() routed to the RELIABLE channel
    popped,     \* history: the bytes pop_deliverable() has returned so far
    tx_count,   \* history: per channel and seq, DATA packets due_packets built
    last,       \* the last call made and the value it returned
    lost,       \* history: the number of frames the network has lost
    returned,   \* history: the bytes Transport.recv() has returned so far
    msg,        \* the Packet object the codec is applied to
    frame,      \* the bytes of one datagram: what to_bytes built, as it is now
    sock,       \* the datagrams waiting in the UDP socket of the Transport
    pc,         \* where the sending application is: "app", or "drain" while
                \* it is inside Transport.drain()
    peer,       \* Transport._peer: the address data is flushed to, or NoPeer
    sock_open   \* whether Transport._sock is a socket (TRUE) or None (FALSE)

vars == <<snd, rcv, now, net, offered, rel_stream, popped, tx_count, last,
          lost, returned, msg, frame, sock, pc, peer, sock_open>>

-----------------------------------------------------------------------------
(* Bounds of the model *)

\* total number of application bytes the model lets offer() accept
MaxBytes == 3
\* the mss and the window the Sender is constructed with
Mss == 1
Window == 2
\* longest argument of one offer() call
MaxOffer == 3
\* largest value of the clock
MaxNow == 2000
\* number of RTT samples the model lets the estimator take
MaxSamples == 2
\* number of times the model lets due_packets emit one segment
MaxTx == 2
\* length of the RELIABLE stream stand-alone receiver inputs are cut from
StreamLen == 4
\* number of UNRELIABLE bytes the model lets a receiver deliver
MaxDelivered == 2
\* total number of application bytes Transport.send accepts in the system
MaxSysBytes == 2
\* number of frames the network loses in one run of the fair system
MaxLoss == 2
\* the clock value at which the fair system stops waiting for a timer
MaxLiveNow == 16000
\* SpecSeg: the largest MSS, the window, the longest offer and the most bytes
\* the application writes
MaxMss == 3
SegWindow == 4
MaxSegOffer == 4
MaxSegBytes == 5
\* SpecRto: the clock runs from 1000 up to MaxRtoNow
MaxRtoNow == 10000
\* SpecSack: the length of the reliable stream, and of its DATA packets
SackStreamLen == 12
MaxSackLen == 2

(* Program constants *)

MAXIMUM_RTO_MS == 8000
MAX_SACK_BLOCKS == 32
SACK_LIMIT == 4

\* types.py: PacketType and ChannelType
DATA == 1
ACK == 2
SACK == 3
CTRL == 4
UNRELIABLE == 0
RELIABLE == 1
Chan == {UNRELIABLE, RELIABLE}

-----------------------------------------------------------------------------
(* Generic helpers: Python built-ins used by the code *)

Min(a, b) == IF a <= b THEN a ELSE b
Max(a, b) == IF a >= b THEN a ELSE b

Range(f) == {f[x] : x \in DOMAIN f}

\* the elements of a finite set of integers in descending order (not the
\* code)
RECURSIVE SortedSeq_Descending(_)
SortedSeq_Descending(S) ==
    IF S = {} THEN <<>>
    ELSE LET m == CHOOSE x \in S : \A y \in S : x >= y
         IN <<m>> \o SortedSeq_Descending(S \ {m})

\* sorted(S): the elements of a finite set of integers in ascending order
RECURSIVE SortedSeq(_)
SortedSeq(S) ==
    IF S = {} THEN <<>>
    ELSE LET m == CHOOSE x \in S : \A y \in S : x <= y
         IN <<m>> \o SortedSeq(S \ {m})

\* sum of g[x] over a finite set S
RECURSIVE SumOver(_, _)
SumOver(S, g) ==
    IF S = {} THEN 0
    ELSE LET x == CHOOSE y \in S : TRUE
         IN g[x] + SumOver(S \ {x}, g)

\* bytes slicing b[lo:hi] with 0-based, half-open indices
Slice(b, lo, hi) == SubSeq(b, lo + 1, Min(hi, Len(b)))

\* dict.pop / del: the map without the keys in D
Without(f, D) == [k \in (DOMAIN f) \ D |-> f[k]]

\* dict[k] = v
Put(f, k, v) == [x \in (DOMAIN f) \cup {k} |-> IF x = k THEN v ELSE f[x]]

EmptyMap == [k \in {} |-> 0]

-----------------------------------------------------------------------------
(* packet.py: the Packet dataclass (lines 50-60) *)

Packet(typ, chan, seq, ts_send, payload, ack, rcv_wnd, ts_echo, sack) ==
    [typ |-> typ, channel_type |-> chan, seq |-> seq, ts_send |-> ts_send,
     payload |-> payload, ack |-> ack, rcv_wnd |-> rcv_wnd,
     ts_echo |-> ts_echo, sack |-> sack]

DataPacket(chan, seq, ts_send, payload) ==
    Packet(DATA, chan, seq, ts_send, payload, 0, 0, 0, <<>>)

SackBlock(start, end) == [start |-> start, end |-> end]

\* the value None returned by a method
None == [typ |-> 0]

-----------------------------------------------------------------------------
(* receiver.py *)

\* Receiver(rcv_nxt=0, wnd_bytes, sack_enabled)
NewReceiver(wnd, sack) ==
    [rcv_nxt |-> 0, wnd_bytes |-> wnd, sack_enabled |-> sack,
     buf |-> EmptyMap, delivered |-> <<>>]

\* _consume_contiguous starting at the lowest buffered chunk, whether or not
\* it starts at rcv_nxt (not the code)
ConsumeContiguous_SkipGap(R) ==
    IF DOMAIN R.buf = {} THEN R
    ELSE LET s == CHOOSE x \in DOMAIN R.buf : \A y \in DOMAIN R.buf : x <= y
             chunk == R.buf[s]
         IN [R EXCEPT !.buf = Without(@, {s}),
                      !.delivered = @ \o chunk,
                      !.rcv_nxt = s + Len(chunk)]

\* _consume_contiguous advancing rcv_nxt by one per chunk (not the code)
RECURSIVE ConsumeContiguous_ByOne(_)
ConsumeContiguous_ByOne(R) ==
    IF R.rcv_nxt \notin DOMAIN R.buf THEN R
    ELSE LET chunk == R.buf[R.rcv_nxt]
         IN ConsumeContiguous_ByOne(
                [R EXCEPT !.buf = Without(R.buf, {R.rcv_nxt}),
                          !.delivered = R.delivered \o chunk,
                          !.rcv_nxt = R.rcv_nxt + 1])

\* _consume_contiguous popping one chunk only, no loop (not the code)
ConsumeContiguous_Once(R) ==
    IF R.rcv_nxt \notin DOMAIN R.buf THEN R
    ELSE LET chunk == R.buf[R.rcv_nxt]
         IN [R EXCEPT !.buf = Without(R.buf, {R.rcv_nxt}),
                      !.delivered = R.delivered \o chunk,
                      !.rcv_nxt = R.rcv_nxt + Len(chunk)]

\* Receiver._consume_contiguous: pop the chunk keyed at rcv_nxt, repeat
RECURSIVE ConsumeContiguous(_)
ConsumeContiguous(R) ==
    IF R.rcv_nxt \notin DOMAIN R.buf THEN R
    ELSE LET chunk == R.buf[R.rcv_nxt]
         IN ConsumeContiguous(
                [R EXCEPT !.buf = Without(R.buf, {R.rcv_nxt}),
                          !.delivered = R.delivered \o chunk,
                          !.rcv_nxt = R.rcv_nxt + Len(chunk)])

\* _build_sack_blocks without the clip s = max(s, base) (not the code)
Spans_NoClip(R) ==
    {<<s, s + Len(R.buf[s])>> : s \in {k \in DOMAIN R.buf :
                                         k + Len(R.buf[k]) > R.rcv_nxt}}

\* the clipped spans of _build_sack_blocks (lines 161-169)
Spans(R) ==
    LET base == R.rcv_nxt
        clip(s) == <<Max(s, base), s + Len(R.buf[s])>>
    IN {clip(s) : s \in {k \in DOMAIN R.buf :
                            /\ k + Len(R.buf[k]) > base
                            /\ Max(k, base) < k + Len(R.buf[k])}}

\* spans.sort(): tuples in lexicographic order
RECURSIVE SortSpans(_)
SortSpans(S) ==
    IF S = {} THEN <<>>
    ELSE LET m == CHOOSE x \in S : \A y \in S :
                      \/ x[1] < y[1]
                      \/ x[1] = y[1] /\ x[2] <= y[2]
         IN <<m>> \o SortSpans(S \ {m})

\* the merge loop joining overlapping spans only, not touching ones (not the
\* code)
RECURSIVE MergeLoop_NoTouch(_, _, _, _)
MergeLoop_NoTouch(rest, cs, ce, merged) ==
    IF rest = <<>> THEN Append(merged, SackBlock(cs, ce))
    ELSE LET s == Head(rest)[1]
             e == Head(rest)[2]
         IN IF s < ce
            THEN MergeLoop_NoTouch(Tail(rest), cs, Max(ce, e), merged)
            ELSE MergeLoop_NoTouch(Tail(rest), s, e,
                                   Append(merged, SackBlock(cs, ce)))

\* the merge loop of _build_sack_blocks (lines 174-182)
RECURSIVE MergeLoop(_, _, _, _)
MergeLoop(rest, cs, ce, merged) ==
    IF rest = <<>> THEN Append(merged, SackBlock(cs, ce))
    ELSE LET s == Head(rest)[1]
             e == Head(rest)[2]
         IN IF s <= ce
            THEN MergeLoop(Tail(rest), cs, Max(ce, e), merged)
            ELSE MergeLoop(Tail(rest), s, e, Append(merged, SackBlock(cs, ce)))

\* merged.sort(key=start, reverse=True): merged is ascending, so reversed
Reverse(s) == [i \in 1..Len(s) |-> s[Len(s) + 1 - i]]

\* Receiver._build_sack_blocks(limit)
BuildSackBlocks(R, limit) ==
    IF ~R.sack_enabled THEN <<>>
    ELSE IF Spans(R) = {} THEN <<>>
    ELSE LET spans == SortSpans(Spans(R))
             merged == MergeLoop(Tail(spans), spans[1][1], spans[1][2], <<>>)
             cap == Min(limit, MAX_SACK_BLOCKS)
         IN SubSeq(Reverse(merged), 1, Min(cap, Len(merged)))

\* _feedback answering with a plain ACK whatever is buffered (not the code)
Feedback_AckOnly(R, ts_echo) ==
    Packet(ACK, RELIABLE, R.rcv_nxt, 0, <<>>, R.rcv_nxt, R.wnd_bytes,
           ts_echo, <<>>)

\* Receiver._feedback(ts_echo)
Feedback(R, ts_echo) ==
    LET blocks == BuildSackBlocks(R, SACK_LIMIT)
    IN IF blocks # <<>> /\ R.sack_enabled
       THEN Packet(SACK, RELIABLE, R.rcv_nxt, 0, <<>>, R.rcv_nxt,
                   R.wnd_bytes, ts_echo, blocks)
       ELSE Packet(ACK, RELIABLE, R.rcv_nxt, 0, <<>>, R.rcv_nxt,
                   R.wnd_bytes, ts_echo, <<>>)

\* on_data storing an overlapping payload without trimming it (not the code)
OnDataReliable_NoTrim(R, pkt) ==
    IF pkt.seq + Len(pkt.payload) <= R.rcv_nxt
    THEN [rcv |-> R, fb |-> Feedback(R, pkt.ts_send)]
    ELSE LET seq2 == IF pkt.seq < R.rcv_nxt THEN R.rcv_nxt ELSE pkt.seq
             R1 == IF pkt.payload # <<>>
                   THEN [R EXCEPT !.buf = Put(R.buf, seq2, pkt.payload)]
                   ELSE R
             R2 == ConsumeContiguous(R1)
         IN [rcv |-> R2, fb |-> Feedback(R2, pkt.ts_send)]

\* on_data without the duplicate check and the trim of lines 67-78: whatever
\* arrives is buffered at its own offset (not the code)
OnDataReliable_NoDupCheck(R, pkt) ==
    LET R1 == IF pkt.payload # <<>>
              THEN [R EXCEPT !.buf = Put(R.buf, pkt.seq, pkt.payload)]
              ELSE R
        R2 == ConsumeContiguous(R1)
    IN [rcv |-> R2, fb |-> Feedback(R2, pkt.ts_send)]

\* the RELIABLE branch of Receiver.on_data (lines 61-85)
OnDataReliable(R, pkt) ==
    LET seq == pkt.seq
        pay == pkt.payload
    IN IF seq + Len(pay) <= R.rcv_nxt
       THEN [rcv |-> R, fb |-> Feedback(R, pkt.ts_send)]
       ELSE LET trim == R.rcv_nxt - seq
                pay2 == IF seq < R.rcv_nxt THEN Slice(pay, trim, Len(pay)) ELSE pay
                seq2 == IF seq < R.rcv_nxt THEN R.rcv_nxt ELSE seq
            IN IF seq < R.rcv_nxt /\ ~(trim < Len(pay))
               THEN [rcv |-> R, fb |-> Feedback(R, pkt.ts_send)]
               ELSE LET R1 == IF pay2 # <<>>
                              THEN [R EXCEPT !.buf = Put(R.buf, seq2, pay2)]
                              ELSE R
                        R2 == ConsumeContiguous(R1)
                    IN [rcv |-> R2, fb |-> Feedback(R2, pkt.ts_send)]

\* on_data without the UNRELIABLE branch: every DATA packet goes through the
\* reassembly buffer and is answered with feedback (not the code)
OnData_AllReliable(R, pkt) == OnDataReliable(R, pkt)

\* Receiver.on_data(pkt) for a DATA packet: the new receiver and the feedback
\* (the counter total_packets_received, which no method reads, is left out)
OnData(R, pkt) ==
    IF pkt.channel_type = UNRELIABLE
    THEN [rcv |-> IF pkt.payload # <<>>
                  THEN [R EXCEPT !.delivered = @ \o pkt.payload]
                  ELSE R,
          fb |-> None]
    ELSE OnDataReliable(R, pkt)

\* Receiver.pop_deliverable(): the new receiver and the returned bytes
PopDeliverable(R) ==
    IF R.delivered = <<>> THEN [rcv |-> R, out |-> <<>>]
    ELSE [rcv |-> [R EXCEPT !.delivered = <<>>], out |-> R.delivered]

-----------------------------------------------------------------------------
(* sender.py *)

DEFAULT_RTO == 1000
MIN_RTO == 200
INITIAL_SEG_RTO == 1000

\* srtt and rttvar are floats; the model holds them as integers scaled by
\* Scale, which keeps MaxSamples updates with alpha = 1/8, beta = 1/4 exact;
\* an update beyond that is rounded down to a multiple of 1/Scale ms.
\* NoRtt stands for the value None.
Scale == 8 ^ MaxSamples
NoRtt == -1

\* probabilities and the draws of rng.random(), in hundredths
RngDraws == {0, 99}

\* the _Seg dataclass (lines 40-47)
Seg(seq, end, payload, chan) ==
    [seq |-> seq, end |-> end, payload |-> payload, chan |-> chan,
     sent_ts |-> 0, acked |-> FALSE, retx_count |-> 0,
     rto_ms |-> INITIAL_SEG_RTO]

\* Sender.__init__ (lines 100-136); prob_reliable is clamped to [0, 1]
NewSender(mss, window, prob, sack) ==
    [mss |-> mss, win |-> window,
     prob_reliable |-> Max(0, Min(100, prob)),
     sack_enabled |-> sack,
     next_seq |-> [c \in Chan |-> 0],
     inflight |-> [c \in Chan |-> EmptyMap],
     bytes_inflight |-> 0,
     srtt |-> NoRtt, rttvar |-> NoRtt, rtt_cnt |-> 0,
     retx_total |-> 0, sent_rel_segments |-> 0, sent_unrel_segments |-> 0]

\* the number of chunks the loop of offer cuts `take` bytes into
NumChunks(mss, take) == (take + mss - 1) \div mss

\* offer putting all it takes into one segment, whatever the MSS (not the code)
OfferLoop_OneSegment(S, data, take, off, i, draws) ==
    IF ~(off < take) THEN S
    ELSE LET chan == IF draws[i] < S.prob_reliable THEN RELIABLE ELSE UNRELIABLE
             chunk == Slice(data, off, take)
             seg == Seg(S.next_seq[chan], S.next_seq[chan] + Len(chunk),
                        chunk, chan)
         IN [S EXCEPT !.inflight[chan] = Put(@, seg.seq, seg),
                      !.next_seq[chan] = seg.end,
                      !.bytes_inflight = @ + Len(chunk)]

\* the while loop of Sender.offer (lines 163-177); draws[i] is the value
\* rng.random() returns for the i-th chunk
RECURSIVE OfferLoop(_, _, _, _, _, _)
OfferLoop(S, data, take, off, i, draws) ==
    IF ~(off < take) THEN S
    ELSE LET end == Min(off + S.mss, take)
             chunk == Slice(data, off, end)
             use_rel == draws[i] < S.prob_reliable
             chan == IF use_rel THEN RELIABLE ELSE UNRELIABLE
             seg == Seg(S.next_seq[chan], S.next_seq[chan] + Len(chunk),
                        chunk, chan)
             S1 == [S EXCEPT !.inflight[chan] = Put(@, seg.seq, seg),
                             !.next_seq[chan] = seg.end,
                             !.bytes_inflight = @ + Len(chunk)]
         IN OfferLoop(S1, data, take, end, i + 1, draws)

\* offer accepting all of data, whatever the window (not the code)
OfferTake_NoCap(S, data) == Len(data)

\* the number of bytes Sender.offer(data) accepts (lines 154-161)
OfferTake(S, data) ==
    IF data = <<>> THEN 0
    ELSE LET space == Max(S.win - S.bytes_inflight, 0)
         IN IF space <= 0 THEN 0 ELSE Min(Len(data), space)

\* Sender.offer(data): the new sender and the returned count
Offer(S, data, draws) ==
    LET take == OfferTake(S, data)
    IN [snd |-> OfferLoop(S, data, take, 0, 1, draws), ret |-> take]

\* the unreliable loop emitting acknowledged segments too (not the code)
UnrelDue_Always(seg) == TRUE

\* due_packets: whether the unreliable loop emits the segment (line 195)
UnrelDue(seg) == ~seg.acked

\* the reliable loop emitting a segment once and never again (not the code)
RelDue_NoRetx(seg, t) == ~seg.acked /\ seg.sent_ts = 0

\* due_packets: whether the reliable loop emits the segment (lines 231-237)
RelDue(seg, t) ==
    /\ ~seg.acked
    /\ (seg.sent_ts = 0 \/ (t - seg.sent_ts) >= seg.rto_ms)

\* a retransmission doubling the RTO without the cap (not the code)
Emitted_NoCap(seg, t) ==
    LET first_send == seg.sent_ts = 0
    IN [seg EXCEPT !.retx_count = IF first_send THEN @ ELSE @ + 1,
                   !.rto_ms = IF first_send THEN @ ELSE @ * 2,
                   !.sent_ts = t]

\* due_packets: the segment after its emission at time t (lines 197-212,
\* 234-253): a retransmission counts and backs the RTO off
Emitted(seg, t) ==
    LET first_send == seg.sent_ts = 0
    IN [seg EXCEPT !.retx_count = IF first_send THEN @ ELSE @ + 1,
                   !.rto_ms = IF first_send THEN @
                              ELSE Min(@ * 2, MAXIMUM_RTO_MS),
                   !.sent_ts = t]

\* due_packets: the unreliable segment after its emission (line 221)
EmittedUnrel(seg, t) == [Emitted(seg, t) EXCEPT !.acked = TRUE]

\* the DATA packet due_packets builds for a segment (lines 205-211, 246-252)
SegPacket(seg, t) == DataPacket(seg.chan, seg.seq, t, seg.payload)

\* to_free of due_packets: declared empty on line 191 and never appended to
ToFree == {}

\* Sender.due_packets() at clock value t: the new sender and the packets
DuePackets(S, t) ==
    LET U == S.inflight[UNRELIABLE]
        R == S.inflight[RELIABLE]
        eu == {s \in DOMAIN U : UnrelDue(U[s])}
        er == {s \in DOMAIN R : RelDue(R[s], t)}
        firstU == {s \in eu : U[s].sent_ts = 0}
        firstR == {s \in er : R[s].sent_ts = 0}
        U1 == [s \in DOMAIN U |-> IF s \in eu THEN EmittedUnrel(U[s], t) ELSE U[s]]
        R1 == [s \in DOMAIN R |-> IF s \in er THEN Emitted(R[s], t) ELSE R[s]]
        su == SortedSeq(eu)
        sr == SortedSeq(er)
        out == [i \in 1..Len(su) |-> SegPacket(U[su[i]], t)]
               \o [i \in 1..Len(sr) |-> SegPacket(R[sr[i]], t)]
        freed == SumOver(ToFree \cap DOMAIN R1, [s \in DOMAIN R1 |-> Len(R1[s].payload)])
        S1 == [S EXCEPT
                 !.inflight = [c \in Chan |->
                                 IF c = UNRELIABLE THEN Without(U1, ToFree)
                                 ELSE Without(R1, ToFree)],
                 !.sent_unrel_segments = @ + Cardinality(firstU),
                 !.sent_rel_segments = @ + Cardinality(firstR),
                 !.retx_total = @ + Cardinality(eu \ firstU)
                                  + Cardinality(er \ firstR),
                 !.bytes_inflight = IF ToFree = {} THEN @
                                    ELSE Max(@ - freed, 0)]
    IN [snd |-> S1, out |-> out]

\* Sender.current_rto() (lines 426-431)
CurrentRto(S) ==
    IF S.srtt = NoRtt THEN DEFAULT_RTO
    ELSE LET var == IF S.rttvar = NoRtt THEN 0 ELSE S.rttvar
             rto == S.srtt + Max(4 * var, Scale)
         IN Max(rto \div Scale, MIN_RTO)

\* a sample taken from a retransmitted segment too (not the code)
SampleMatch_NoKarn(seg, ts_echo) == seg.sent_ts = ts_echo

\* _maybe_update_rtt: whether a segment yields a sample for ts_echo (line 359)
SampleMatch(seg, ts_echo) == seg.sent_ts = ts_echo /\ seg.retx_count = 0

\* the RTO refresh writing to retransmitted segments too (not the code)
RtoRefreshed_All(seg) == TRUE

\* _maybe_update_rtt: whether the RTO refresh writes to the segment (line 384)
RtoRefreshed(seg) == seg.retx_count = 0

\* whether Sender._maybe_update_rtt(ts_echo) takes a sample
TakesSample(S, ts_echo) ==
    /\ ts_echo # 0
    /\ \E s \in DOMAIN S.inflight[RELIABLE] :
           SampleMatch(S.inflight[RELIABLE][s], ts_echo)

\* Sender._maybe_update_rtt(ts_echo) at clock value t
MaybeUpdateRtt(S, ts_echo, t) ==
    IF ~TakesSample(S, ts_echo) THEN S
    ELSE LET sample == Max(t - ts_echo, 1) * Scale
             absdiff == IF S.srtt >= sample THEN S.srtt - sample
                        ELSE sample - S.srtt
             S1 == IF S.srtt = NoRtt
                   THEN [S EXCEPT !.rtt_cnt = @ + 1,
                                  !.srtt = sample,
                                  !.rttvar = sample \div 2]
                   ELSE [S EXCEPT !.rtt_cnt = @ + 1,
                                  !.rttvar = (3 * @ + absdiff) \div 4,
                                  !.srtt = (7 * @ + sample) \div 8]
             rto == CurrentRto(S1)
             R == S1.inflight[RELIABLE]
         IN [S1 EXCEPT !.inflight[RELIABLE] =
                [s \in DOMAIN R |-> IF RtoRefreshed(R[s])
                                    THEN [R[s] EXCEPT !.rto_ms = rto]
                                    ELSE R[s]]]

\* _ack_up_to marking every segment that starts at or below up_to (not the
\* code)
AckUpTo_Inclusive(R, up_to) ==
    [s \in DOMAIN R |-> IF R[s].seq <= up_to
                        THEN [R[s] EXCEPT !.acked = TRUE] ELSE R[s]]

\* Sender._ack_up_to(up_to)
AckUpTo(R, up_to) ==
    [s \in DOMAIN R |-> IF R[s].end <= up_to
                        THEN [R[s] EXCEPT !.acked = TRUE] ELSE R[s]]

\* _ack_range marking only the segments that lie inside [start, end) (not
\* the code)
AckRange_Contained(R, start, end) ==
    [s \in DOMAIN R |->
        IF R[s].seq >= start /\ R[s].end <= end
        THEN [R[s] EXCEPT !.acked = TRUE] ELSE R[s]]

\* Sender._ack_range(start, end)
AckRange(R, start, end) ==
    [s \in DOMAIN R |->
        IF R[s].acked THEN R[s]
        ELSE IF R[s].seq >= end \/ R[s].end <= start THEN R[s]
        ELSE [R[s] EXCEPT !.acked = TRUE]]

\* the loop over pkt.sack of on_feedback (lines 300-301)
RECURSIVE AckBlocks(_, _)
AckBlocks(R, blocks) ==
    IF blocks = <<>> THEN R
    ELSE AckBlocks(AckRange(R, Head(blocks).start, Head(blocks).end),
                   Tail(blocks))

\* on_feedback without the check of the packet type (not the code)
OnFeedback_AnyType(S, pkt, t) ==
    LET S1 == MaybeUpdateRtt(S, pkt.ts_echo, t)
        R1 == AckUpTo(S1.inflight[RELIABLE], pkt.ack)
        done == {s \in DOMAIN R1 : R1[s].acked}
        freed == SumOver(done, [s \in DOMAIN R1 |-> Len(R1[s].payload)])
    IN [S1 EXCEPT !.inflight[RELIABLE] = Without(R1, done),
                  !.bytes_inflight = Max(@ - freed, 0)]

\* Sender.on_feedback(pkt) at clock value t
OnFeedback(S, pkt, t) ==
    IF pkt.typ \notin {ACK, SACK} THEN S
    ELSE LET S1 == MaybeUpdateRtt(S, pkt.ts_echo, t)
             R1 == AckUpTo(S1.inflight[RELIABLE], pkt.ack)
             R2 == IF pkt.typ = SACK /\ S1.sack_enabled
                   THEN AckBlocks(R1, pkt.sack) ELSE R1
             done == {s \in DOMAIN R2 : R2[s].acked}
             freed == SumOver(done, [s \in DOMAIN R2 |-> Len(R2[s].payload)])
         IN [S1 EXCEPT !.inflight[RELIABLE] = Without(R2, done),
                       !.bytes_inflight = Max(@ - freed, 0)]

\* Sender.has_unacked()
HasUnacked(S) == S.bytes_inflight > 0

\* get_inflight_segments listing the segments of both channels (not the code)
GetInflightSegments_BothChannels(S) ==
    Range(S.inflight[RELIABLE]) \cup Range(S.inflight[UNRELIABLE])

\* Sender.get_inflight_segments()
GetInflightSegments(S) == Range(S.inflight[RELIABLE])

-----------------------------------------------------------------------------
(* The environment: application data, the streams and their histories *)

\* the k-th byte (from 0) the application writes; distinct bytes make the
\* position of a byte in the stream visible in the delivered queue
AppByte(k) == k

\* the byte at offset i of the stream a stand-alone receiver is fed from
StreamByte(chan, i) == IF chan = RELIABLE THEN i ELSE 100 + i

\* the payload of a DATA packet carrying bytes [seq, seq + n) of a stream
StreamSlice(chan, seq, n) == [k \in 1..n |-> StreamByte(chan, seq + k - 1)]

\* everything the receiver has appended to its delivered queue so far
AllDelivered == popped \o rcv.delivered

IsReliableByte(b) == b \in Range(rel_stream)
IsUnreliableByte(b) == ~IsReliableByte(b)

\* the delivered bytes that came from RELIABLE DATA packets, in append order
ReliableDelivered == SelectSeq(AllDelivered, IsReliableByte)
UnreliableDelivered == SelectSeq(AllDelivered, IsUnreliableByte)

IsPrefix(s, t) == Len(s) <= Len(t) /\ s = SubSeq(t, 1, Len(s))

\* configuration values the specifications construct the objects with
ProbValues == {0, 50, 100}
WND_BYTES == 65535

\* the default of the --win option of the sending program (64 * 1024), which
\* becomes the window of its Transport
CLI_WIN == 65536
TsValues == {7}

NoCall == [op |-> "init"]
NoTx == [c \in Chan |-> EmptyMap]

-----------------------------------------------------------------------------
(* SpecRecv: a Receiver fed arbitrary DATA packets of the intended stream *)

\* the (seq, length) of the DATA packets fed to a stand-alone receiver:
\* every slice of the RELIABLE stream, empty, overlapping and duplicate ones
\* included, and the slices of a one-byte UNRELIABLE stream
DataSlices(chan) ==
    IF chan = RELIABLE
    THEN {<<s, n>> \in (0..StreamLen) \X (0..StreamLen) : s + n <= StreamLen}
    ELSE {<<0, 0>>, <<0, 1>>}

InitRecv ==
    /\ \E sack \in BOOLEAN : rcv = NewReceiver(WND_BYTES, sack)
    /\ snd = NewSender(1, 0, 100, TRUE)
    /\ now = 0
    /\ net = {}
    /\ offered = 0
    /\ rel_stream = StreamSlice(RELIABLE, 0, StreamLen)
    /\ popped = <<>>
    /\ tx_count = NoTx
    /\ last = NoCall
    /\ lost = 0
    /\ returned = <<>>
    /\ msg = None
    /\ frame = <<>>
    /\ sock = <<>>
    /\ pc = "app"
    /\ peer = "peer"
    /\ sock_open = TRUE

\* receiver.on_data(pkt), pkt any DATA packet cut from the intended stream
RecvOnData ==
    \E chan \in Chan, ts \in TsValues :
      \E sl \in DataSlices(chan) :
        LET pkt == DataPacket(chan, sl[1], ts, StreamSlice(chan, sl[1], sl[2]))
            res == OnData(rcv, pkt)
        IN /\ chan = UNRELIABLE =>
                Len(UnreliableDelivered) + sl[2] <= MaxDelivered
           /\ rcv' = res.rcv
           /\ last' = [op |-> "on_data", chan |-> chan, seq |-> sl[1],
                       len |-> sl[2], ts |-> ts, was |-> rcv.rcv_nxt,
                       ret |-> res.fb]
           /\ UNCHANGED <<returned, peer, sock_open, msg, frame, sock, pc>>
           /\ UNCHANGED <<lost, snd, now, net, offered, rel_stream, popped, tx_count>>

\* receiver.pop_deliverable()
RecvPop ==
    LET res == PopDeliverable(rcv)
    IN /\ rcv' = res.rcv
       /\ popped' = popped \o res.out
       /\ last' = [op |-> "pop_deliverable", ret |-> res.out]
       /\ UNCHANGED <<returned, peer, sock_open, msg, frame, sock, pc>>
       /\ UNCHANGED <<lost, snd, now, net, offered, rel_stream, tx_count>>

NextRecv == RecvOnData \/ RecvPop

SpecRecv == InitRecv /\ [][NextRecv]_vars

-----------------------------------------------------------------------------
(* SpecSend: a Sender driven by an application, a clock and arbitrary      *)
(* feedback packets                                                        *)

\* the clock advances by this amount, up to MaxNow
TickSteps == {1000}

\* the bytes of the reliable segments offer() created, in stream order
RECURSIVE ConcatPayloads(_, _)
ConcatPayloads(R, seqs) ==
    IF seqs = <<>> THEN <<>>
    ELSE R[Head(seqs)].payload \o ConcatPayloads(R, Tail(seqs))

NewReliableBytes(S, S1) ==
    LET R == S1.inflight[RELIABLE]
    IN ConcatPayloads(R, SortedSeq({s \in DOMAIN R : s >= S.next_seq[RELIABLE]}))

\* tx_count after due_packets returned the packets `out`
Counted(tx, out) ==
    [c \in Chan |->
       LET emitted == {out[i].seq : i \in {j \in 1..Len(out) : out[j].channel_type = c}}
       IN [s \in (DOMAIN tx[c]) \cup emitted |->
             (IF s \in DOMAIN tx[c] THEN tx[c][s] ELSE 0)
             + (IF s \in emitted THEN 1 ELSE 0)]]

WithinMaxTx(tx) == \A c \in Chan : \A s \in DOMAIN tx[c] : tx[c][s] <= MaxTx

\* the sequence numbers a feedback packet may name: those of the reliable
\* stream, and one beyond everything sent
AckValues(S) == 0..(S.next_seq[RELIABLE] + 1)

\* SACK block lists of a feedback packet: one block, or two disjoint blocks
\* in descending order, aligned to segments or not
Blocks(S) ==
    {SackBlock(x[1], x[2]) : x \in {y \in AckValues(S) \X AckValues(S) : y[1] < y[2]}}
BlockLists(S) ==
    {<<b>> : b \in Blocks(S)}
    \cup {<<x[1], x[2]>> : x \in {y \in Blocks(S) \X Blocks(S) : y[2].end < y[1].start}}

\* the timestamps a feedback packet may echo: none, one the sender stamped
\* on an in-flight segment, or one it never used
EchoValues(S) ==
    {0, 1} \cup {S.inflight[RELIABLE][s].sent_ts : s \in DOMAIN S.inflight[RELIABLE]}

\* the packets on_feedback is called with: ACK and SACK packets, and DATA and
\* CTRL packets with and without an acknowledgement number and an echo
FeedbackInputs(S) ==
    {Packet(ACK, RELIABLE, x[1], 0, <<>>, x[1], WND_BYTES, x[2], <<>>) :
        x \in AckValues(S) \X EchoValues(S)}
    \cup {Packet(SACK, RELIABLE, 0, 0, <<>>, 0, WND_BYTES, 0, x) :
        x \in BlockLists(S)}
    \cup {Packet(CTRL, RELIABLE, 0, 0, <<>>, 0, 0, 0, <<>>),
          DataPacket(RELIABLE, 0, 0, <<>>)}
    \cup {Packet(typ, RELIABLE, 0, 0, <<>>, S.next_seq[RELIABLE], WND_BYTES, e,
                  <<>>) : typ \in {DATA, CTRL}, e \in EchoValues(S)}

InitSend ==
    /\ \E p \in ProbValues, sack \in BOOLEAN : snd = NewSender(Mss, Window, p, sack)
    /\ rcv = NewReceiver(WND_BYTES, TRUE)
    /\ now = 0
    /\ net = {}
    /\ offered = 0
    /\ rel_stream = <<>>
    /\ popped = <<>>
    /\ tx_count = NoTx
    /\ last = NoCall
    /\ lost = 0
    /\ returned = <<>>
    /\ msg = None
    /\ frame = <<>>
    /\ sock = <<>>
    /\ pc = "app"
    /\ peer = "peer"
    /\ sock_open = TRUE

\* the next n bytes the application writes
OfferData(n) == [i \in 1..n |-> AppByte(offered + i - 1)]

\* sender.offer(data): data are the next n bytes the application writes
SendOffer ==
    \E n \in 0..MaxOffer :
      LET data == OfferData(n)
          take == OfferTake(snd, data)
      IN \E draws \in [1..NumChunks(snd.mss, take) -> RngDraws] :
           LET res == Offer(snd, data, draws)
           IN /\ offered + res.ret <= MaxBytes
              /\ snd' = res.snd
              /\ offered' = offered + res.ret
              /\ rel_stream' = rel_stream \o NewReliableBytes(snd, res.snd)
              /\ last' = [op |-> "offer", n |-> n, ret |-> res.ret]
              /\ UNCHANGED <<returned, peer, sock_open, msg, frame, sock, pc>>
              /\ UNCHANGED <<lost, rcv, now, net, popped, tx_count>>

\* sender.due_packets()
SendDue ==
    LET res == DuePackets(snd, now)
    IN /\ WithinMaxTx(Counted(tx_count, res.out))
       /\ snd' = res.snd
       /\ tx_count' = Counted(tx_count, res.out)
       /\ last' = [op |-> "due_packets"]
       /\ UNCHANGED <<returned, peer, sock_open, msg, frame, sock, pc>>
       /\ UNCHANGED <<lost, rcv, now, net, offered, rel_stream, popped>>

\* sender.on_feedback(pkt), pkt any packet
SendFeedback ==
    \E pkt \in FeedbackInputs(snd) :
       /\ TakesSample(snd, pkt.ts_echo) => snd.rtt_cnt < MaxSamples
       /\ snd' = OnFeedback(snd, pkt, now)
       /\ last' = [op |-> "on_feedback", ts_echo |-> pkt.ts_echo]
       /\ UNCHANGED <<returned, peer, sock_open, msg, frame, sock, pc>>
       /\ UNCHANGED <<lost, rcv, now, net, offered, rel_stream, popped, tx_count>>

\* the clock advances
Tick ==
    \E d \in TickSteps :
       /\ now + d <= MaxNow
       /\ now' = now + d
       /\ last' = [op |-> "tick"]
       /\ UNCHANGED <<returned, peer, sock_open, msg, frame, sock, pc>>
       /\ UNCHANGED <<lost, snd, rcv, net, offered, rel_stream, popped, tx_count>>

NextSend == SendOffer \/ SendDue \/ SendFeedback \/ Tick

SpecSend == InitSend /\ [][NextSend]_vars

-----------------------------------------------------------------------------
(* SpecSys: a sending Transport and its peer, a receiving Transport, joined *)
(* by a network that drops, duplicates and reorders frames: net holds every *)
(* frame sent so far, and a frame in it arrives any number of times, at any *)
(* moment, or never                                                         *)

\* the frames of a list of packets
Frames(out) == {out[i] : i \in 1..Len(out)}

\* Transport._peer while no peer is known (None in the code)
NoPeer == "None"

\* Transport._flush_due() at clock value t, with peer p and the socket open
\* or not: nothing is asked of the sender without a socket or without a peer
FlushDue(S, p, open, t) ==
    IF ~open \/ p = NoPeer THEN [snd |-> S, out |-> <<>>]
    ELSE DuePackets(S, t)

InitSys ==
    /\ \E sack \in BOOLEAN :
         /\ snd = NewSender(Mss, Window, 50, sack)
         /\ rcv = NewReceiver(Window, sack)
    /\ now = 0
    /\ net = {}
    /\ offered = 0
    /\ rel_stream = <<>>
    /\ popped = <<>>
    /\ tx_count = NoTx
    /\ last = NoCall
    /\ lost = 0
    /\ returned = <<>>
    /\ msg = None
    /\ frame = <<>>
    /\ sock = <<>>
    /\ pc = "app"
    /\ peer = "peer"
    /\ sock_open = TRUE

\* Transport.send(data) of the sending side: offer, then _flush_due
SysSend ==
    \E n \in 1..MaxOffer :
      LET data == OfferData(n)
          take == OfferTake(snd, data)
      IN \E draws \in [1..NumChunks(snd.mss, take) -> RngDraws] :
           LET off == Offer(snd, data, draws)
               res == FlushDue(off.snd, peer, sock_open, now)
           IN /\ offered + off.ret <= MaxSysBytes
              /\ WithinMaxTx(Counted(tx_count, res.out))
              /\ snd' = res.snd
              /\ offered' = offered + off.ret
              /\ rel_stream' = rel_stream \o NewReliableBytes(snd, off.snd)
              /\ tx_count' = Counted(tx_count, res.out)
              /\ net' = net \cup Frames(res.out)
              /\ last' = [op |-> "send", n |-> n, ret |-> off.ret]
              /\ UNCHANGED <<returned, peer, sock_open, msg, frame, sock, pc>>
              /\ UNCHANGED <<lost, rcv, now, popped>>

\* Transport._flush_due() of the sending side, as poll and drain call it
SysFlush ==
    LET res == FlushDue(snd, peer, sock_open, now)
    IN /\ WithinMaxTx(Counted(tx_count, res.out))
       /\ snd' = res.snd
       /\ tx_count' = Counted(tx_count, res.out)
       /\ net' = net \cup Frames(res.out)
       /\ last' = [op |-> "flush"]
       /\ UNCHANGED <<returned, peer, sock_open, msg, frame, sock, pc>>
       /\ UNCHANGED <<lost, rcv, now, offered, rel_stream, popped>>

\* Transport._on_inbound of the receiving side for a DATA frame: on_data and
\* the feedback sent back
SysOnData ==
    \E pkt \in {f \in net : f.typ = DATA} :
       LET res == OnData(rcv, pkt)
       IN /\ pkt.channel_type = UNRELIABLE =>
               Len(UnreliableDelivered) + Len(pkt.payload) <= MaxDelivered
          /\ rcv' = res.rcv
          /\ net' = net \cup (IF res.fb = None THEN {} ELSE {res.fb})
          /\ last' = [op |-> "on_inbound", typ |-> pkt.typ]
          /\ UNCHANGED <<returned, peer, sock_open, msg, frame, sock, pc>>
          /\ UNCHANGED <<lost, snd, now, offered, rel_stream, popped, tx_count>>

\* Transport._on_inbound of the sending side for an ACK or SACK frame, which
\* poll reads only from a socket
SysOnFeedback ==
    \E pkt \in {f \in net : f.typ \in {ACK, SACK}} :
       /\ sock_open
       /\ TakesSample(snd, pkt.ts_echo) => snd.rtt_cnt < MaxSamples
       /\ snd' = OnFeedback(snd, pkt, now)
       /\ last' = [op |-> "on_inbound", typ |-> pkt.typ]
       /\ UNCHANGED <<returned, peer, sock_open, msg, frame, sock, pc>>
       /\ UNCHANGED <<lost, rcv, now, net, offered, rel_stream, popped, tx_count>>

\* Transport.recv(max_bytes) of the receiving side
SysRecv ==
    \E max_bytes \in {1, MaxSysBytes} :
       LET res == PopDeliverable(rcv)
       IN /\ rcv' = res.rcv
          /\ popped' = popped \o res.out
          /\ last' = [op |-> "recv", max_bytes |-> max_bytes,
                      data |-> Slice(res.out, 0, max_bytes)]
          /\ returned' = returned \o Slice(res.out, 0, max_bytes)
          /\ UNCHANGED <<peer, sock_open, msg, frame, sock, pc, lost, snd, now, net,
                         offered,
                         rel_stream, tx_count>>

NextSys ==
    SysSend \/ SysFlush \/ SysOnData \/ SysOnFeedback \/ SysRecv
    \/ Tick

SpecSys == InitSys /\ [][NextSys]_vars

-----------------------------------------------------------------------------
(* SpecLive: the system of SpecSys under fair scheduling. net holds the     *)
(* frames in flight: a frame arrives once or is lost, in any order, and the *)
(* network loses at most MaxLoss frames. The clock is read when the sending *)
(* side has nothing to transmit and no frame is in flight, so that time is  *)
(* spent only waiting for a retransmission timer. The receiving            *)
(* application does not read: what is delivered stays in the queue.         *)

InitLive ==
    /\ \E sack \in BOOLEAN :
         /\ snd = NewSender(Mss, Window, 50, sack)
         /\ rcv = NewReceiver(Window, sack)
    /\ now = 1000
    /\ net = {}
    /\ offered = 0
    /\ rel_stream = <<>>
    /\ popped = <<>>
    /\ tx_count = NoTx
    /\ last = NoCall
    /\ lost = 0
    /\ returned = <<>>
    /\ msg = None
    /\ frame = <<>>
    /\ sock = <<>>
    /\ pc = "app"
    /\ peer = "peer"
    /\ sock_open = TRUE

\* Transport.send(data) of the sending side: offer, then _flush_due
LiveSend ==
    \E n \in 1..MaxOffer :
      LET data == OfferData(n)
          take == OfferTake(snd, data)
      IN \E draws \in [1..NumChunks(snd.mss, take) -> RngDraws] :
           LET off == Offer(snd, data, draws)
               res == FlushDue(off.snd, peer, sock_open, now)
           IN /\ offered + off.ret <= MaxSysBytes
              /\ snd' = res.snd
              /\ offered' = offered + off.ret
              /\ rel_stream' = rel_stream \o NewReliableBytes(snd, off.snd)
              /\ tx_count' = Counted(tx_count, res.out)
              /\ net' = net \cup Frames(res.out)
              /\ last' = [op |-> "send"]
              /\ UNCHANGED <<returned, peer, sock_open, msg, frame, sock, pc>>
              /\ UNCHANGED <<lost, rcv, now, popped>>

\* Transport._flush_due() of the sending side, as poll and drain call it
LiveFlush ==
    LET res == FlushDue(snd, peer, sock_open, now)
    IN /\ snd' = res.snd
       /\ tx_count' = Counted(tx_count, res.out)
       /\ net' = net \cup Frames(res.out)
       /\ last' = [op |-> "flush"]
       /\ UNCHANGED <<returned, peer, sock_open, msg, frame, sock, pc>>
       /\ UNCHANGED <<lost, rcv, now, offered, rel_stream, popped>>

\* a DATA frame arrives: Transport._on_inbound of the receiving side
LiveOnData ==
    \E pkt \in {f \in net : f.typ = DATA} :
       LET res == OnData(rcv, pkt)
       IN /\ rcv' = res.rcv
          /\ net' = (net \ {pkt}) \cup (IF res.fb = None THEN {} ELSE {res.fb})
          /\ last' = [op |-> "on_inbound", typ |-> pkt.typ]
          /\ UNCHANGED <<returned, peer, sock_open, msg, frame, sock, pc>>
          /\ UNCHANGED <<lost, snd, now, offered, rel_stream, popped, tx_count>>

\* an ACK or SACK frame arrives: Transport._on_inbound of the sending side,
\* which poll reads only from a socket
LiveOnFeedback ==
    \E pkt \in {f \in net : f.typ \in {ACK, SACK}} :
       /\ sock_open
       /\ snd' = OnFeedback(snd, pkt, now)
       /\ net' = net \ {pkt}
       /\ last' = [op |-> "on_inbound", typ |-> pkt.typ]
       /\ UNCHANGED <<returned, peer, sock_open, msg, frame, sock, pc>>
       /\ UNCHANGED <<lost, rcv, now, offered, rel_stream, popped, tx_count>>

\* the network loses a frame
LiveLose ==
    \E pkt \in net :
       /\ lost < MaxLoss
       /\ net' = net \ {pkt}
       /\ lost' = lost + 1
       /\ last' = [op |-> "lose"]
       /\ UNCHANGED <<returned, peer, sock_open, msg, frame, sock, pc>>
       /\ UNCHANGED <<snd, rcv, now, offered, rel_stream, popped, tx_count>>

\* the clock advances while the sender waits for a retransmission timer
LiveTick ==
    \E d \in TickSteps :
       /\ net = {}
       /\ FlushDue(snd, peer, sock_open, now).out = <<>>
       /\ GetInflightSegments(snd) # {}
       /\ now + d <= MaxLiveNow
       /\ now' = now + d
       /\ last' = [op |-> "tick"]
       /\ UNCHANGED <<returned, peer, sock_open, msg, frame, sock, pc>>
       /\ UNCHANGED <<lost, snd, rcv, net, offered, rel_stream, popped, tx_count>>

NextLive ==
    LiveSend \/ LiveFlush \/ LiveOnData \/ LiveOnFeedback \/ LiveLose
    \/ LiveTick

\* poll runs again and again (flush, inbound frames), the network hands over
\* the frames it does not lose, and the clock keeps advancing
SpecLive ==
    /\ InitLive /\ [][NextLive]_vars
    /\ WF_vars(LiveFlush)
    /\ WF_vars(LiveOnData)
    /\ WF_vars(LiveOnFeedback)
    /\ WF_vars(LiveTick)

-----------------------------------------------------------------------------
(* Claims about the Receiver, checked under SpecRecv *)

\* the feedback packet the last call returned, when it returned one
LastFeedback == IF last.op = "on_data" THEN last.ret ELSE None

C4_RcvNxtMonotoneAndExact ==
    [][/\ rcv'.rcv_nxt >= rcv.rcv_nxt
       /\ (last'.op = "on_data" /\ last'.chan = RELIABLE) =>
             AllDelivered' = AllDelivered
                 \o SubSeq(rel_stream, rcv.rcv_nxt + 1, rcv'.rcv_nxt)]_vars

\* a RELIABLE on_data has completed the stream after the application popped
C4_Witness ==
    /\ last.op = "on_data" /\ last.chan = RELIABLE
    /\ rcv.rcv_nxt = StreamLen
    /\ popped # <<>>
    /\ rcv.delivered # <<>>

\* C8: every SACK block of every feedback packet has start < end and
\* start >= rcv_nxt, and the blocks of one packet do not overlap pairwise.
C8_SackBlocksValid ==
    LET b == LastFeedback.sack
    IN LastFeedback.typ = SACK =>
         /\ \A i \in 1..Len(b) :
              b[i].start < b[i].end /\ b[i].start >= rcv.rcv_nxt
         /\ \A i, j \in 1..Len(b) :
              i # j => (b[i].end <= b[j].start \/ b[j].end <= b[i].start)

\* a SACK that reports two separate blocks
C8_Witness ==
    /\ LastFeedback.typ = SACK
    /\ Len(LastFeedback.sack) >= 2

-----------------------------------------------------------------------------
(* Claims about the Sender, checked under SpecSend *)

\* the payload bytes of the reliable segments still waiting for an ACK
UnackedReliableBytes(S) ==
    LET R == S.inflight[RELIABLE]
    IN SumOver({s \in DOMAIN R : ~R[s].acked},
               [s \in DOMAIN R |-> Len(R[s].payload)])

\* C5 as stated: in every reachable Sender state bytes_inflight equals the
\* sum of the payload lengths of the unacknowledged reliable segments in the
\* in-flight map.
C5_BytesInflightIsUnackedReliableSum ==
    snd.bytes_inflight = UnackedReliableBytes(snd)

\* C6: bytes_inflight never exceeds the window, and offer(data) accepts and
\* returns exactly min(len(data), window - bytes_inflight) bytes: 0 when the
\* window is full or data is empty.
C6_WindowCap ==
    /\ snd.bytes_inflight <= snd.win
    /\ [][/\ snd'.bytes_inflight <= snd'.win
          /\ last'.op = "offer" =>
               /\ last'.ret = Min(last'.n, snd.win - snd.bytes_inflight)
               /\ snd'.bytes_inflight = snd.bytes_inflight + last'.ret]_vars

\* an offer filled the window and accepted only a part of its data
C6_Witness ==
    /\ last.op = "offer"
    /\ 0 < last.ret /\ last.ret < last.n
    /\ snd.bytes_inflight = snd.win

\* the RTT estimator of a sender
Estimator(S) == <<S.srtt, S.rttvar, S.rtt_cnt>>

\* a reliable in-flight segment that was never retransmitted and was stamped
\* with the timestamp ts
NeverRetransmittedAt(S, ts) ==
    \E s \in DOMAIN S.inflight[RELIABLE] :
        /\ S.inflight[RELIABLE][s].sent_ts = ts
        /\ S.inflight[RELIABLE][s].retx_count = 0

\* C7 (Karn's rule): only on_feedback changes the RTT estimator, and only
\* when ts_echo is non-zero and equals sent_ts of a reliable in-flight
\* segment whose retx_count is 0.
C7_Karn ==
    [][Estimator(snd') # Estimator(snd) =>
         /\ last'.op = "on_feedback"
         /\ last'.ts_echo # 0
         /\ NeverRetransmittedAt(snd, last'.ts_echo)]_vars

\* the estimator holds a sample, and the last feedback echoed the timestamp
\* of a retransmitted segment that is still in flight
C7_Witness ==
    /\ snd.rtt_cnt > 0
    /\ last.op = "on_feedback"
    /\ last.ts_echo # 0
    /\ \E s \in DOMAIN snd.inflight[RELIABLE] :
          /\ snd.inflight[RELIABLE][s].sent_ts = last.ts_echo
          /\ snd.inflight[RELIABLE][s].retx_count > 0

\* how many times the segment seq of channel c was emitted as a DATA packet
TimesEmitted(c, seq) ==
    IF seq \in DOMAIN tx_count[c] THEN tx_count[c][seq] ELSE 0

\* C9: no unreliable segment is ever emitted twice, and after a due_packets
\* call every unreliable segment offered before it has been emitted exactly
\* once, whatever the clock value.
C9_UnreliableEmittedOnce ==
    /\ \A s \in DOMAIN tx_count[UNRELIABLE] : tx_count[UNRELIABLE][s] <= 1
    /\ [][last'.op = "due_packets" =>
            \A s \in DOMAIN snd.inflight[UNRELIABLE] :
                TimesEmitted(UNRELIABLE, s)' = 1]_vars

\* due_packets ran at a clock value later than the one an unreliable segment
\* was emitted at, and the segment has still been emitted once
C9_Witness ==
    /\ last.op = "due_packets"
    /\ \E s \in DOMAIN snd.inflight[UNRELIABLE] :
          /\ TimesEmitted(UNRELIABLE, s) = 1
          /\ snd.inflight[UNRELIABLE][s].sent_ts < now

\* C10 as stated: after due_packets returns, the unreliable in-flight map
\* contains no segment that has been emitted.
C10_EmittedUnreliableRetired ==
    last.op = "due_packets" =>
        \A s \in DOMAIN snd.inflight[UNRELIABLE] :
            TimesEmitted(UNRELIABLE, s) = 0

-----------------------------------------------------------------------------
(* Claims about the system of Sender, network and Receiver, checked under   *)
(* SpecSys                                                                  *)

\* C1: in every reachable state of the system the bytes the receiver has
\* delivered from RELIABLE DATA frames are exactly the first rcv_nxt bytes of
\* the reliable stream the sender segmented, in order, with no gap and no
\* byte twice.
C1_ReliableDeliveredExactlyOnce ==
    /\ rcv.rcv_nxt <= Len(rel_stream)
    /\ ReliableDelivered = SubSeq(rel_stream, 1, rcv.rcv_nxt)

\* the whole reliable stream is delivered after a segment arrived ahead of
\* its predecessor (a SACK was sent) and a segment was retransmitted
C1_Witness ==
    /\ Len(rel_stream) = MaxSysBytes
    /\ rcv.rcv_nxt = Len(rel_stream)
    /\ \E f \in net : f.typ = SACK
    /\ snd.retx_total > 0

-----------------------------------------------------------------------------
(* Claims about the fair system, checked under SpecLive *)

\* the reliable in-flight map of the sender holds the stream byte k
InFlight(S, k) ==
    \E s \in DOMAIN S.inflight[RELIABLE] :
        S.inflight[RELIABLE][s].seq <= k /\ k < S.inflight[RELIABLE][s].end

\* the receiver has appended the stream byte k to its delivered queue
DeliveredByte(k) ==
    /\ Len(ReliableDelivered) > k
    /\ ReliableDelivered[k + 1] = rel_stream[k + 1]

\* the receiver holds the bytes [seq, end): delivered or buffered
ReceiverHolds(R, seq, end) ==
    \/ end <= R.rcv_nxt
    \/ \E b \in DOMAIN R.buf : b <= seq /\ end <= b + Len(R.buf[b])

\* C2: under fair flush/poll steps, an advancing clock and a network that
\* loses only finitely many frames, every byte of every reliable segment
\* accepted by offer is eventually delivered at the peer and its segment
\* eventually removed from the sender's reliable in-flight map; and the
\* sender removes a reliable segment only on feedback, when the receiver
\* holds the segment's bytes.
C2_ReliableEventuallyDeliveredAndAcked ==
    /\ \A k \in 0..(MaxSysBytes - 1) :
         (k < Len(rel_stream)) ~> (DeliveredByte(k) /\ ~InFlight(snd, k))
    /\ [][\A s \in DOMAIN snd.inflight[RELIABLE] :
            s \notin DOMAIN snd'.inflight[RELIABLE] =>
              /\ last'.op = "on_inbound" /\ last'.typ \in {ACK, SACK}
              /\ ReceiverHolds(rcv, s, snd.inflight[RELIABLE][s].end)]_vars

\* frames were lost, a segment was retransmitted, and the whole reliable
\* stream is delivered and acknowledged
C2_Witness ==
    /\ lost = MaxLoss
    /\ snd.retx_total > 0
    /\ Len(rel_stream) = MaxSysBytes
    /\ \A k \in 0..(MaxSysBytes - 1) : DeliveredByte(k) /\ ~InFlight(snd, k)


\* the offset at which a chain of buffer entries that starts at offset n ends:
\* each entry of the chain is keyed exactly where the one before it ends
RECURSIVE ChainEnd(_, _)
ChainEnd(B, n) == IF n \in DOMAIN B THEN ChainEnd(B, n + Len(B[n])) ELSE n

\* C17: a RELIABLE DATA packet that starts above rcv_nxt is buffered, nothing
\* is delivered and rcv_nxt stays; a packet that starts at rcv_nxt delivers
\* the whole chain of buffer entries that starts there in the same on_data
\* call; after every on_data the buffer holds no entry keyed at rcv_nxt.
C17_GreedyGapFill ==
    [][(last'.op = "on_data" /\ last'.chan = RELIABLE) =>
         LET pay == StreamSlice(RELIABLE, last'.seq, last'.len)
             buffered == Put(rcv.buf, last'.seq, pay)
         IN /\ rcv'.rcv_nxt \notin DOMAIN rcv'.buf
            /\ (last'.seq > rcv.rcv_nxt) =>
                  /\ rcv'.rcv_nxt = rcv.rcv_nxt
                  /\ rcv'.delivered = rcv.delivered
                  /\ rcv'.buf = IF last'.len > 0 THEN buffered ELSE rcv.buf
            /\ (last'.seq = rcv.rcv_nxt /\ last'.len > 0) =>
                  /\ rcv'.rcv_nxt = ChainEnd(buffered, rcv.rcv_nxt)
                  /\ rcv'.delivered = rcv.delivered
                        \o SubSeq(rel_stream, rcv.rcv_nxt + 1, rcv'.rcv_nxt)
                  /\ \A k \in DOMAIN rcv'.buf :
                        /\ k \in DOMAIN rcv.buf
                        /\ rcv'.buf[k] = rcv.buf[k]]_vars

\* the packet at rcv_nxt arrived after two later packets had been buffered
\* one behind the other, and the call delivered all three
C17_Witness ==
    /\ last.op = "on_data" /\ last.chan = RELIABLE
    /\ last.seq = last.was /\ last.len = 1
    /\ rcv.rcv_nxt = last.was + 3
    /\ Len(rcv.delivered) >= 3

\* C18: on_data of a RELIABLE DATA packet with seq + len <= rcv_nxt leaves
\* rcv_nxt, the reassembly buffer and the delivered queue unchanged and
\* returns a feedback packet whose ack is the current rcv_nxt.
C18_PureDuplicate ==
    [][(/\ last'.op = "on_data" /\ last'.chan = RELIABLE
        /\ last'.seq + last'.len <= rcv.rcv_nxt) =>
         /\ rcv'.rcv_nxt = rcv.rcv_nxt
         /\ rcv'.buf = rcv.buf
         /\ rcv'.delivered = rcv.delivered
         /\ last'.ret.typ \in {ACK, SACK}
         /\ last'.ret.ack = rcv.rcv_nxt]_vars

\* a non-empty packet below rcv_nxt arrived while data was waiting both in
\* the delivered queue and in the reassembly buffer
C18_Witness ==
    /\ last.op = "on_data" /\ last.chan = RELIABLE
    /\ last.len > 0 /\ last.seq + last.len <= last.was
    /\ rcv.rcv_nxt = last.was
    /\ rcv.delivered # <<>>
    /\ DOMAIN rcv.buf # {}

-----------------------------------------------------------------------------
(* SpecSeg: a Sender whose MSS is larger than one byte, driven by offer,    *)
(* due_packets and acknowledgements, cumulative and selective               *)

InitSeg ==
    /\ \E mss \in 2..MaxMss : snd = NewSender(mss, SegWindow, 50, TRUE)
    /\ rcv = NewReceiver(WND_BYTES, FALSE)
    /\ now = 1000
    /\ net = {}
    /\ offered = 0
    /\ rel_stream = <<>>
    /\ popped = <<>>
    /\ tx_count = NoTx
    /\ last = NoCall
    /\ lost = 0
    /\ returned = <<>>
    /\ msg = None
    /\ frame = <<>>
    /\ sock = <<>>
    /\ pc = "app"
    /\ peer = "peer"
    /\ sock_open = TRUE

\* sender.offer(data): data are the next n bytes the application writes
SegOffer ==
    \E n \in 0..MaxSegOffer :
      LET data == OfferData(n)
          take == OfferTake(snd, data)
      IN \E draws \in [1..NumChunks(snd.mss, take) -> RngDraws] :
           LET res == Offer(snd, data, draws)
           IN /\ offered + res.ret <= MaxSegBytes
              /\ snd' = res.snd
              /\ offered' = offered + res.ret
              /\ rel_stream' = rel_stream \o NewReliableBytes(snd, res.snd)
              /\ last' = [op |-> "offer", n |-> n, ret |-> res.ret]
              /\ UNCHANGED <<returned, peer, sock_open, msg, frame, sock, pc>>
              /\ UNCHANGED <<lost, rcv, now, net, popped, tx_count>>

\* sender.due_packets()
SegDue ==
    /\ snd' = DuePackets(snd, now).snd
    /\ last' = [op |-> "due_packets", out |-> DuePackets(snd, now).out]
    /\ UNCHANGED <<returned, peer, sock_open, msg, frame, sock, pc>>
    /\ UNCHANGED <<lost, rcv, now, net, offered, rel_stream, popped, tx_count>>

\* the packets on_feedback is called with: an ACK of all of the reliable
\* stream, or a SACK with ack 0 and one block; none echoes a timestamp
SegFeedbackInputs(S) ==
    {Packet(ACK, RELIABLE, 0, 0, <<>>, S.next_seq[RELIABLE], WND_BYTES, 0, <<>>)}
    \cup {Packet(SACK, RELIABLE, 0, 0, <<>>, 0, WND_BYTES, 0, <<b>>) :
             b \in Blocks(S)}

\* sender.on_feedback(pkt)
SegFeedback ==
    \E pkt \in SegFeedbackInputs(snd) :
       /\ snd' = OnFeedback(snd, pkt, now)
       /\ last' = [op |-> "on_feedback", ts_echo |-> 0, typ |-> pkt.typ]
       /\ UNCHANGED <<returned, peer, sock_open, msg, frame, sock, pc>>
       /\ UNCHANGED <<lost, rcv, now, net, offered, rel_stream, popped, tx_count>>

NextSeg == SegOffer \/ SegDue \/ SegFeedback

SpecSeg == InitSeg /\ [][NextSeg]_vars

\* the chunks of exactly mss bytes, the last one possibly shorter, that the
\* first `take` bytes of data are cut into
Chunks(data, take, mss) ==
    {Slice(data, k * mss, Min((k + 1) * mss, take)) :
        k \in 0..(NumChunks(mss, take) - 1)}

\* the segments of channel c that the sender S1 has and that start at or
\* above the next sequence number of S
NewSegments(S, S1, c) ==
    {S1.inflight[c][s] : s \in {x \in DOMAIN S1.inflight[c] : x >= S.next_seq[c]}}

\* C16: offer cuts the accepted bytes, in order, into chunks of exactly MSS
\* bytes except possibly the last; every segment of an in-flight map has
\* seq < end and end - seq <= MSS; in each channel the segments an offer
\* creates continue the channel's sequence space without gap or overlap, so
\* that the segments created so far cover [0, next_seq); and the two next_seq
\* add up to the total of bytes accepted.
C16_Segmentation ==
    [][/\ snd'.next_seq[RELIABLE] + snd'.next_seq[UNRELIABLE] = offered'
       /\ \A c \in Chan : \A s \in DOMAIN snd'.inflight[c] :
            LET seg == snd'.inflight[c][s]
            IN /\ seg.seq = s /\ seg.chan = c
               /\ seg.seq < seg.end
               /\ seg.end - seg.seq <= snd'.mss
               /\ Len(seg.payload) = seg.end - seg.seq
               /\ seg.end <= snd'.next_seq[c]
               /\ \A s2 \in DOMAIN snd'.inflight[c] :
                     s2 > s => snd'.inflight[c][s2].seq >= seg.end
       /\ last'.op = "offer" =>
            LET new == [c \in Chan |-> NewSegments(snd, snd', c)]
                all == new[RELIABLE] \cup new[UNRELIABLE]
            IN /\ offered' = offered + last'.ret
               /\ {seg.payload : seg \in all}
                     = Chunks(OfferData(last'.n), last'.ret, snd.mss)
               /\ Cardinality(all) = NumChunks(snd.mss, last'.ret)
               /\ \A c \in Chan :
                    /\ snd'.next_seq[c] - snd.next_seq[c]
                         = SumOver(new[c], [seg \in new[c] |-> seg.end - seg.seq])
                    /\ \A seg \in new[c] :
                         \/ seg.seq = snd.next_seq[c]
                         \/ \E p \in new[c] :
                              /\ p.end = seg.seq
                              /\ p.payload[1] < seg.payload[1]
                    /\ \A s \in DOMAIN snd.inflight[c] :
                         /\ s \in DOMAIN snd'.inflight[c]
                         /\ snd'.inflight[c][s] = snd.inflight[c][s]]_vars

\* one offer was cut into a full chunk and a shorter last one, and its
\* chunks went to both channels, after the bytes of an earlier offer had been
\* acknowledged and had left the window
C16_Witness ==
    /\ last.op = "offer" /\ last.ret = 3 /\ snd.mss = 2
    /\ offered > last.ret
    /\ \E s \in DOMAIN snd.inflight[RELIABLE] :
          s > 0 /\ snd.inflight[RELIABLE][s].end - s = 1
    /\ \E s \in DOMAIN snd.inflight[UNRELIABLE] :
          snd.inflight[UNRELIABLE][s].end - s = 2

\* the feedback packets C15 is checked for: ACK and SACK without blocks, any
\* cumulative ack, any echoed timestamp; SACK with one block and any
\* cumulative ack; SACK with one block or two and ack 0
C15_Inputs(S) ==
    {Packet(x[1], RELIABLE, 0, 0, <<>>, x[2], WND_BYTES, x[3], <<>>) :
        x \in {ACK, SACK} \X AckValues(S) \X EchoValues(S)}
    \cup {Packet(SACK, RELIABLE, 0, 0, <<>>, x[1], WND_BYTES, 0, <<x[2]>>) :
        x \in AckValues(S) \X Blocks(S)}
    \cup {Packet(SACK, RELIABLE, 0, 0, <<>>, 0, WND_BYTES, 0, x) :
        x \in BlockLists(S)}

\* whether feedback pkt acknowledges the segment seg of a sender S
Acknowledges(S, pkt, seg) ==
    \/ seg.end <= pkt.ack
    \/ /\ pkt.typ = SACK /\ S.sack_enabled
       /\ \E i \in 1..Len(pkt.sack) :
             seg.seq < pkt.sack[i].end /\ seg.end > pkt.sack[i].start

\* C15: on_feedback with cumulative ack a and SACK blocks B, SACK enabled,
\* removes from the reliable in-flight map exactly the segments with
\* end <= a or overlapping a block of B, and leaves every other reliable
\* segment in the map with all its fields, rto_ms excepted, unchanged.
C15_FeedbackRemovesExactly ==
    \A pkt \in C15_Inputs(snd) :
      LET S1 == OnFeedback(snd, pkt, now)
          R == snd.inflight[RELIABLE]
          R1 == S1.inflight[RELIABLE]
      IN /\ DOMAIN R1 = {s \in DOMAIN R : ~Acknowledges(snd, pkt, R[s])}
         /\ \A s \in DOMAIN R1 : [R1[s] EXCEPT !.rto_ms = R[s].rto_ms] = R[s]

\* a SACK was processed, the segment at offset 0 is still in flight, and a
\* later segment of the reliable stream has left the map
C15_Witness ==
    /\ last.op = "on_feedback" /\ last.typ = SACK
    /\ snd.sack_enabled
    /\ 0 \in DOMAIN snd.inflight[RELIABLE]
    /\ \E s \in DOMAIN snd.inflight[RELIABLE] :
          LET seg == snd.inflight[RELIABLE][s]
          IN /\ seg.end < snd.next_seq[RELIABLE]
             /\ seg.end \notin DOMAIN snd.inflight[RELIABLE]

\* C12 as stated: Transport.recv(max_bytes) returns at most max_bytes bytes,
\* and the bytes it returns are the oldest bytes of the delivered queue not
\* yet returned, in order: what recv has returned so far is a prefix of what
\* has been appended to the delivered queue so far.
C12_RecvReturnsOldestUnreturned ==
    /\ last.op = "recv" => Len(last.data) <= last.max_bytes
    /\ IsPrefix(returned, AllDelivered)

-----------------------------------------------------------------------------
(* SpecDrain: SpecLive with an application that, after its sends, calls     *)
(* Transport.drain(): the loop `while get_inflight_segments(): _flush_due();*)
(* poll(5)` runs its flush and inbound steps until the condition is false   *)

\* Transport.send(data), called by the application outside drain
DrainSend == pc = "app" /\ LiveSend

\* the application calls Transport.drain()
DrainCall ==
    /\ pc = "app"
    /\ pc' = "drain"
    /\ last' = [op |-> "drain"]
    /\ UNCHANGED <<returned, peer, sock_open, msg, frame, sock>>
    /\ UNCHANGED <<lost, snd, rcv, now, net, offered, rel_stream, popped, tx_count>>

\* _flush_due(), called by the loop body of drain and by poll
DrainFlush ==
    /\ pc = "drain" => GetInflightSegments(snd) # {}
    /\ LiveFlush

\* poll hands an inbound ACK or SACK frame to _on_inbound
DrainOnFeedback ==
    /\ pc = "drain" => GetInflightSegments(snd) # {}
    /\ LiveOnFeedback

\* the loop condition of drain is false: drain returns
DrainReturn ==
    /\ pc = "drain"
    /\ GetInflightSegments(snd) = {}
    /\ pc' = "app"
    /\ last' = [op |-> "drain_return"]
    /\ UNCHANGED <<returned, peer, sock_open, msg, frame, sock>>
    /\ UNCHANGED <<lost, snd, rcv, now, net, offered, rel_stream, popped, tx_count>>

NextDrain ==
    DrainSend \/ DrainCall \/ DrainFlush \/ DrainOnFeedback \/ DrainReturn
    \/ LiveOnData \/ LiveLose \/ LiveTick

\* the loop of drain keeps running, the peer keeps polling, the network hands
\* over the frames it does not lose, and the clock keeps advancing
SpecDrain ==
    /\ InitLive /\ [][NextDrain]_vars
    /\ WF_vars(DrainFlush)
    /\ WF_vars(DrainOnFeedback)
    /\ WF_vars(DrainReturn)
    /\ WF_vars(LiveOnData)
    /\ WF_vars(LiveTick)

\* C19: Transport.drain returns only in a state where the sender has no
\* reliable segment in flight, and with a connected peer, an advancing clock
\* and a network that loses only finitely many frames it does return.
C19_DrainTerminates ==
    /\ (pc = "drain") ~> (pc = "app")
    /\ [][(pc = "drain" /\ pc' = "app") =>
            snd'.inflight[RELIABLE] = EmptyMap]_vars

\* drain has returned after frames were lost and a segment was retransmitted
\* while it ran, with segments of both channels sent
C19_Witness ==
    /\ last.op = "drain_return"
    /\ lost = MaxLoss
    /\ snd.retx_total > 0
    /\ snd.next_seq[RELIABLE] > 0
    /\ snd.next_seq[UNRELIABLE] > 0

-----------------------------------------------------------------------------
(* packet.py: the wire codec. A frame is a sequence of bytes 0..255. A      *)
(* 32-bit field (seq, ts_send, ack, ts_echo, the bounds of a SACK block)    *)
(* holds a pair <<hi, lo>> that stands for the integer hi * 2^16 + lo, with *)
(* 0 <= lo < 2^16: the pair has the full range of an unsigned 32-bit value  *)
(* and its neighbours beyond it                                             *)

BASE_LEN == 14
ACK_LEN == 10
SACK_HDR_LEN == 2
MAX_PAYLOAD == 1400

\* the pair of the integer v
Wide(v) == <<v \div 65536, v % 65536>>
\* the integer of the pair w
Narrow(w) == w[1] * 65536 + w[2]
\* start < end on pairs
WideLess(a, b) == a[1] < b[1] \/ (a[1] = b[1] /\ a[2] < b[2])

\* the range checks _u8, _u16, _u32: TRUE when the value passes
FitsU8(v) == 0 <= v /\ v <= 255
\* _u16 accepting every value (not the code)
FitsU16_Any(v) == TRUE
FitsU16(v) == 0 <= v /\ v <= 65535
FitsU32(w) == 0 <= w[1] /\ w[1] <= 65535

\* struct.pack of one field, big-endian ("!H" least significant byte first
\* is not the code)
U16_LittleEndian(v) == <<v % 256, v \div 256>>
U16(v) == <<v \div 256, v % 256>>
U32(w) == U16(w[1]) \o U16(w[2])

\* struct.unpack of one field at the 0-based offset off
RdU16(f, off) == f[off + 1] * 256 + f[off + 2]
RdU32(f, off) == <<RdU16(f, off), RdU16(f, off + 2)>>

\* the loop of _checksum over the 16-bit words at the 0-based offsets
\* i, i + 2, ... below n, in that order, starting from total; a long range
\* is walked as its first half followed by its second half
RECURSIVE ChecksumLoop(_, _, _, _)
ChecksumLoop(b, i, n, total) ==
    IF i >= n THEN total
    ELSE IF n - i = 2
    THEN LET t == total + b[i + 1] * 256 + b[i + 2]
         IN (t % 65536) + (t \div 65536)
    ELSE LET mid == i + 2 * ((n - i) \div 4)
             first == ChecksumLoop(b, i, mid, total)
         IN IF first >= 0 THEN ChecksumLoop(b, mid, n, first) ELSE first

\* _checksum(b): the 16-bit one's-complement sum, complemented
Checksum(b) ==
    LET padded == IF Len(b) % 2 = 1 THEN b \o <<0>> ELSE b
    IN 65535 - ChecksumLoop(padded, 0, Len(padded), 0)

\* the result of to_bytes: a frame, or a ValueError and no frame
Encoded(fr) == [ok |-> TRUE, err |-> "", frame |-> fr]
EncodeError(e) == [ok |-> FALSE, err |-> e, frame |-> <<>>]

\* the first error of the checks of to_bytes on ack, rcv_wnd and ts_echo
\* (lines 92-94, 100-102), "" when there is none
AckFieldsError(p) ==
    IF ~FitsU32(p.ack) THEN "ack out of range for u32"
    ELSE IF ~FitsU16(p.rcv_wnd) THEN "rcv_wnd out of range for u16"
    ELSE IF ~FitsU32(p.ts_echo) THEN "ts_echo out of range for u32"
    ELSE ""

\* the error of the loop over the SACK blocks (lines 107-111)
BlockError(blk) ==
    IF ~FitsU32(blk.start) THEN "sack start out of range for u32"
    ELSE IF ~FitsU32(blk.end) THEN "sack end out of range for u32"
    ELSE IF ~WideLess(blk.start, blk.end) THEN "sack invalid range"
    ELSE ""

BlocksError(sack) ==
    LET bad == {i \in 1..Len(sack) : BlockError(sack[i]) # ""}
    IN IF bad = {} THEN ""
       ELSE BlockError(sack[CHOOSE i \in bad : \A j \in bad : i <= j])

\* the bytes of the SACK blocks (lines 115-116)
RECURSIVE BlockBytes(_)
BlockBytes(sack) ==
    IF sack = <<>> THEN <<>>
    ELSE U32(Head(sack).start) \o U32(Head(sack).end) \o BlockBytes(Tail(sack))

AckExtras(p) == U32(p.ack) \o U16(p.rcv_wnd) \o U32(p.ts_echo)

\* lines 123-134: header with the checksum of header, extras and payload
Assemble(p, length, extras) ==
    LET head == <<p.typ, p.channel_type>> \o U32(p.seq) \o U32(p.ts_send)
                  \o U16(length)
        ck == Checksum(head \o <<0, 0>> \o extras \o p.payload)
    IN Encoded(head \o U16(ck) \o extras \o p.payload)

\* Packet.to_bytes() (lines 67-134)
ToBytes(p) ==
    IF ~FitsU8(p.typ) THEN EncodeError("type out of range for u8")
    ELSE IF ~FitsU8(p.channel_type)
    THEN EncodeError("channel_type out of range for u8")
    ELSE IF ~FitsU32(p.seq) THEN EncodeError("seq out of range for u32")
    ELSE IF ~FitsU32(p.ts_send) THEN EncodeError("ts_send out of range for u32")
    ELSE IF p.typ = DATA
    THEN IF Len(p.payload) > MAX_PAYLOAD THEN EncodeError("payload too large")
         ELSE IF ~FitsU16(Len(p.payload))
         THEN EncodeError("len out of range for u16")
         ELSE Assemble(p, Len(p.payload), <<>>)
    ELSE IF p.payload # <<>>
    THEN EncodeError("control frames must have len == 0 payload")
    ELSE IF p.typ = ACK
    THEN IF AckFieldsError(p) # "" THEN EncodeError(AckFieldsError(p))
         ELSE Assemble(p, 0, AckExtras(p))
    ELSE IF p.typ = SACK
    THEN IF AckFieldsError(p) # "" THEN EncodeError(AckFieldsError(p))
         ELSE IF Len(p.sack) > MAX_SACK_BLOCKS
         THEN EncodeError("too many SACK blocks")
         ELSE IF BlocksError(p.sack) # "" THEN EncodeError(BlocksError(p.sack))
         ELSE Assemble(p, 0, AckExtras(p) \o <<Len(p.sack), 0>>
                                \o BlockBytes(p.sack))
    ELSE Assemble(p, 0, <<>>)

\* the result of from_bytes: a Packet, or a ValueError
Decoded(p) == [ok |-> TRUE, err |-> "", pkt |-> p]
DecodeError(e) == [ok |-> FALSE, err |-> e, pkt |-> None]

\* the SACK blocks read from the frame (lines 202-206), block_cnt of them
\* from the 0-based offset offs
ReadBlocks(f, offs, block_cnt) ==
    [i \in 1..block_cnt |->
        SackBlock(RdU32(f, offs + 8 * (i - 1)), RdU32(f, offs + 8 * (i - 1) + 4))]

\* from_bytes comparing no checksum (not the code)
CkMatches_Always(ck, expected_ck) == TRUE
\* line 227
CkMatches(ck, expected_ck) == ck = expected_ck

\* lines 216-240: the length check, the checksum check and the Packet
Finish(f, length, extras_len, ack, rcv_wnd, ts_echo, sack_blocks) ==
    LET ck == RdU16(f, 12)
        payload == IF length # 0
                   THEN SubSeq(f, Len(f) - length + 1, Len(f)) ELSE <<>>
        extras == SubSeq(f, BASE_LEN + 1, BASE_LEN + extras_len)
        base_wo_ck == SubSeq(f, 1, 12) \o <<0, 0>>
        expected_ck == Checksum(base_wo_ck \o extras \o payload)
    IN IF Len(f) # BASE_LEN + extras_len + length
       THEN DecodeError("length mismatch")
       ELSE IF ~CkMatches(ck, expected_ck) THEN DecodeError("checksum mismatch")
       ELSE IF f[2] \notin Chan THEN DecodeError("not a valid ChannelType")
       ELSE Decoded(Packet(f[1], f[2], RdU32(f, 2), RdU32(f, 6), payload,
                           ack, rcv_wnd, ts_echo, sack_blocks))

\* Packet.from_bytes(frame) (lines 136-240)
FromBytes(f) ==
    IF Len(f) < BASE_LEN THEN DecodeError("frame too short")
    ELSE
    LET typ == f[1]
        length == RdU16(f, 10)
        ack == RdU32(f, 14)
        rcv_wnd == RdU16(f, 18)
        ts_echo == RdU32(f, 20)
        block_cnt == f[25]
        reserved == f[26]
        offs == BASE_LEN + ACK_LEN + SACK_HDR_LEN
        blocks == ReadBlocks(f, offs, block_cnt)
    IN IF typ \notin {DATA, ACK, SACK, CTRL}
       THEN DecodeError("unknown packet type")
       ELSE IF typ = DATA
       THEN Finish(f, length, 0, Wide(0), 0, Wide(0), <<>>)
       ELSE IF typ = ACK
       THEN IF Len(f) - BASE_LEN < ACK_LEN
            THEN DecodeError("truncated ACK section")
            ELSE IF length # 0 THEN DecodeError("ACK frame must have len == 0")
            ELSE Finish(f, length, ACK_LEN, ack, rcv_wnd, ts_echo, <<>>)
       ELSE IF typ = SACK
       THEN IF Len(f) - BASE_LEN < ACK_LEN
            THEN DecodeError("truncated ACK section")
            ELSE IF length # 0 THEN DecodeError("SACK frame must have len == 0")
            ELSE IF Len(f) - (BASE_LEN + ACK_LEN) < SACK_HDR_LEN
            THEN DecodeError("truncated SACK header")
            ELSE IF reserved # 0
            THEN DecodeError("SACK reserved byte must be 0")
            ELSE IF block_cnt > MAX_SACK_BLOCKS
            THEN DecodeError("SACK block_cnt too large")
            ELSE IF Len(f) - offs < block_cnt * 8
            THEN DecodeError("truncated SACK blocks")
            ELSE IF \E i \in 1..block_cnt :
                      ~WideLess(blocks[i].start, blocks[i].end)
            THEN DecodeError("SACK block invalid range")
            ELSE Finish(f, length, ACK_LEN + SACK_HDR_LEN + block_cnt * 8,
                        ack, rcv_wnd, ts_echo, blocks)
       ELSE IF length # 0 THEN DecodeError("CTRL frame must have len == 0")
       ELSE Finish(f, length, 0, Wide(0), 0, Wide(0), <<>>)

-----------------------------------------------------------------------------
(* SpecCodec: to_bytes applied to a Packet, one bit of the frame flipped or *)
(* not, and from_bytes applied to the result                                *)

\* the longest frame whose bits are flipped
MaxFlipLen == 42

\* values of a 32-bit field: 0, 1, 2^16 - 1, 2^16, 2^32 - 1, and two that
\* no 32-bit field holds, 2^32 and -1
U32Edge ==
    {Wide(0), Wide(1), <<0, 65535>>, <<1, 0>>, <<65535, 65535>>,
     <<65536, 0>>, <<-1, 65535>>}
U16Edge == {0, 1, 255, 256, 65535, 65536, -1}
U8Edge == {0, 1, 2, 255, 256, -1}

Zeros(n) == [i \in 1..n |-> 0]

PayloadEdge ==
    {<<>>, <<0>>, <<255>>, <<1, 2>>, <<255, 255, 255>>,
     Zeros(MAX_PAYLOAD), Zeros(MAX_PAYLOAD + 1)}

\* n blocks [10k, 10k + 5), k = n .. 1
DescendingBlocks(n) ==
    [i \in 1..n |-> SackBlock(Wide(10 * (n + 1 - i)), Wide(10 * (n + 1 - i) + 5))]

SackEdge ==
    {<<>>,
     <<SackBlock(Wide(3000), Wide(4000))>>,
     <<SackBlock(Wide(4500), Wide(5000)), SackBlock(Wide(3000), Wide(4000))>>,
     <<SackBlock(<<65535, 65534>>, <<65535, 65535>>)>>,
     DescendingBlocks(MAX_SACK_BLOCKS),
     DescendingBlocks(MAX_SACK_BLOCKS + 1),
     <<SackBlock(Wide(5), Wide(5))>>,
     <<SackBlock(Wide(6), Wide(5))>>,
     <<SackBlock(Wide(3000), Wide(4000)), SackBlock(<<1, 0>>, <<0, 65535>>)>>,
     <<SackBlock(Wide(5), <<65536, 0>>)>>}

\* a Packet of each type that sets the fields its type carries
BasePacket(typ) ==
    IF typ = DATA
    THEN Packet(DATA, UNRELIABLE, Wide(123), Wide(456), <<1, 2, 3>>,
                Wide(0), 0, Wide(0), <<>>)
    ELSE IF typ = ACK
    THEN Packet(ACK, UNRELIABLE, Wide(1000), Wide(111), <<>>,
                Wide(2000), 4096, Wide(222), <<>>)
    ELSE IF typ = SACK
    THEN Packet(SACK, RELIABLE, Wide(0), Wide(111), <<>>,
                Wide(2000), 4096, Wide(222),
                <<SackBlock(Wide(3000), Wide(4000))>>)
    ELSE Packet(CTRL, RELIABLE, Wide(0), Wide(0), <<>>,
                Wide(0), 0, Wide(0), <<>>)

\* the Packets the codec is applied to: each base packet, with one field at
\* a time set to each of its edge values
CodecPackets ==
    UNION {
      LET b == BasePacket(typ)
      IN {[b EXCEPT !.channel_type = v] : v \in U8Edge}
         \cup {[b EXCEPT !.seq = v] : v \in U32Edge}
         \cup {[b EXCEPT !.ts_send = v] : v \in U32Edge}
         \cup {[b EXCEPT !.payload = v] : v \in PayloadEdge}
         \cup {[b EXCEPT !.ack = v] : v \in U32Edge}
         \cup {[b EXCEPT !.rcv_wnd = v] : v \in U16Edge}
         \cup {[b EXCEPT !.ts_echo = v] : v \in U32Edge}
         \cup {[b EXCEPT !.sack = v] : v \in SackEdge}
      : typ \in {DATA, ACK, SACK, CTRL}}

InitCodec ==
    /\ msg \in CodecPackets
    /\ frame = <<>>
    /\ last = NoCall
    /\ snd = NewSender(1, 0, 100, TRUE)
    /\ rcv = NewReceiver(WND_BYTES, TRUE)
    /\ now = 0
    /\ net = {}
    /\ offered = 0
    /\ rel_stream = <<>>
    /\ popped = <<>>
    /\ tx_count = NoTx
    /\ lost = 0
    /\ returned = <<>>
    /\ sock = <<>>
    /\ pc = "app"
    /\ peer = "peer"
    /\ sock_open = TRUE

\* msg.to_bytes()
CodecToBytes ==
    /\ last.op = "init"
    /\ LET res == ToBytes(msg)
       IN /\ frame' = res.frame
          /\ last' = [op |-> "to_bytes", ok |-> res.ok, err |-> res.err]
    /\ UNCHANGED <<returned, peer, sock_open, msg, sock, pc>>
    /\ UNCHANGED <<lost, snd, rcv, now, net, offered, rel_stream, popped, tx_count>>

\* the byte v with bit k flipped
FlipBit(v, k) == IF (v \div (2 ^ k)) % 2 = 1 THEN v - 2 ^ k ELSE v + 2 ^ k

\* one bit of the frame to_bytes returned is flipped on the way
CodecFlip ==
    /\ last.op = "to_bytes" /\ last.ok
    /\ Len(frame) <= MaxFlipLen
    /\ \E i \in 1..Len(frame), k \in 0..7 :
         frame' = [frame EXCEPT ![i] = FlipBit(@, k)]
    /\ last' = [op |-> "flip"]
    /\ UNCHANGED <<returned, peer, sock_open, msg, sock, pc>>
    /\ UNCHANGED <<lost, snd, rcv, now, net, offered, rel_stream, popped, tx_count>>

\* Packet.from_bytes(frame)
CodecFromBytes ==
    /\ \/ last.op = "to_bytes" /\ last.ok
       \/ last.op = "flip"
    /\ LET res == FromBytes(frame)
       IN last' = [op |-> "from_bytes", intact |-> last.op = "to_bytes",
                   ok |-> res.ok, err |-> res.err, pkt |-> res.pkt]
    /\ UNCHANGED <<returned, peer, sock_open, msg, frame, sock, pc>>
    /\ UNCHANGED <<lost, snd, rcv, now, net, offered, rel_stream, popped, tx_count>>

NextCodec == CodecToBytes \/ CodecFlip \/ CodecFromBytes

SpecCodec == InitCodec /\ [][NextCodec]_vars

\* the value exceeds what an unsigned field of 8, 16 or 32 bits holds
Over8(v) == v > 255
Over16(v) == v > 65535
Over32(w) == w[1] > 65535

\* the fields a frame of the packet's type does not carry hold their defaults,
\* and channel_type is a ChannelType
CarriedOnly(p) ==
    /\ p.channel_type \in Chan
    /\ p.typ \in {DATA, CTRL} =>
          p.ack = Wide(0) /\ p.rcv_wnd = 0 /\ p.ts_echo = Wide(0)
    /\ p.typ # SACK => p.sack = <<>>

\* the frame length C13 gives for the packet, 14 for CTRL
FrameLen(p) ==
    IF p.typ = DATA THEN BASE_LEN + Len(p.payload)
    ELSE IF p.typ = ACK THEN BASE_LEN + ACK_LEN
    ELSE IF p.typ = SACK
    THEN BASE_LEN + ACK_LEN + SACK_HDR_LEN + 8 * Len(p.sack)
    ELSE BASE_LEN

\* from_bytes has been applied to the frame to_bytes returned for msg
RoundTripDone == last.op = "from_bytes" /\ last.intact

\* C13 as stated: for every Packet p that to_bytes accepts, of any of the four
\* types and with any field values within their widths,
\* from_bytes(to_bytes(p)) equals p field for field, and the frame is
\* 14 + payload length bytes long for DATA, 24 for ACK, 26 + 8n for SACK.
C13_RoundTripEveryAccepted ==
    RoundTripDone =>
       /\ last.ok /\ last.pkt = msg
       /\ Len(frame) = FrameLen(msg)

\* C13 amended: for every Packet p that to_bytes accepts, whose channel_type
\* is a ChannelType and whose fields not carried by a frame of its type (ack,
\* rcv_wnd, ts_echo on DATA and CTRL; sack on DATA, ACK and CTRL) hold their
\* defaults, from_bytes(to_bytes(p)) equals p field for field; and for every
\* Packet that to_bytes accepts the frame is 14 + payload length bytes long
\* for DATA, 24 for ACK, 26 + 8n for SACK.
C13_RoundTripCarriedFields ==
    /\ (RoundTripDone /\ CarriedOnly(msg)) => last.ok /\ last.pkt = msg
    /\ (last.op = "to_bytes" /\ last.ok) => Len(frame) = FrameLen(msg)

\* a SACK packet with a block that ends at 2^32 - 1 has made the round trip
C13_Witness ==
    /\ RoundTripDone /\ last.ok /\ last.pkt = msg
    /\ msg.typ = SACK /\ Len(frame) = 34
    /\ msg.sack[1].end = <<65535, 65535>>

\* C14: flipping any single bit of a frame that to_bytes produced, in the
\* header, the extras or the payload, makes from_bytes fail.
C14_SingleBitFlipDetected ==
    (last.op = "from_bytes" /\ ~last.intact) => ~last.ok

\* from_bytes failed on the checksum of a SACK frame with a flipped bit
C14_Witness ==
    /\ last.op = "from_bytes" /\ ~last.intact
    /\ last.err = "checksum mismatch"
    /\ msg.typ = SACK /\ Len(frame) = 34

\* a SACK block list that to_bytes is to reject: a bound beyond 32 bits, or
\* start >= end
BadBlocks(sack) ==
    \E i \in 1..Len(sack) :
       \/ Over32(sack[i].start) \/ Over32(sack[i].end)
       \/ ~WideLess(sack[i].start, sack[i].end)

BadPayload(p) ==
    \/ p.typ = DATA /\ Len(p.payload) > MAX_PAYLOAD
    \/ p.typ \in {ACK, SACK, CTRL} /\ p.payload # <<>>

\* C20 as stated: to_bytes fails and produces no frame whenever the packet
\* has a DATA payload longer than 1400 bytes, a non-empty payload on an
\* ACK/SACK/CTRL packet, a field value exceeding its wire width, more than
\* 32 SACK blocks, or a SACK block with start >= end.
C20_ToBytesRejectsEveryField ==
    (/\ last.op = "to_bytes"
     /\ \/ BadPayload(msg)
        \/ Over8(msg.typ) \/ Over8(msg.channel_type)
        \/ Over32(msg.seq) \/ Over32(msg.ts_send)
        \/ Over32(msg.ack) \/ Over16(msg.rcv_wnd) \/ Over32(msg.ts_echo)
        \/ Len(msg.sack) > MAX_SACK_BLOCKS
        \/ BadBlocks(msg.sack))
    => ~last.ok /\ frame = <<>>

\* C20 amended: to_bytes fails and produces no frame whenever the packet has
\* a DATA payload longer than 1400 bytes, a non-empty payload on an
\* ACK/SACK/CTRL packet, a value exceeding its wire width in a field that a
\* frame of its type carries (typ, channel_type, seq, ts_send; for ACK and
\* SACK also ack, rcv_wnd, ts_echo; for SACK also the block bounds), or, on
\* a SACK packet, more than 32 blocks or a block with start >= end.
C20_ToBytesRejectsCarriedFields ==
    (/\ last.op = "to_bytes"
     /\ \/ BadPayload(msg)
        \/ Over8(msg.typ) \/ Over8(msg.channel_type)
        \/ Over32(msg.seq) \/ Over32(msg.ts_send)
        \/ /\ msg.typ \in {ACK, SACK}
           /\ Over32(msg.ack) \/ Over16(msg.rcv_wnd) \/ Over32(msg.ts_echo)
        \/ /\ msg.typ = SACK
           /\ Len(msg.sack) > MAX_SACK_BLOCKS \/ BadBlocks(msg.sack))
    => ~last.ok /\ frame = <<>>

\* to_bytes refused an ACK packet whose rcv_wnd is 2^16
C20_Witness ==
    /\ last.op = "to_bytes" /\ ~last.ok /\ frame = <<>>
    /\ msg.typ = ACK /\ msg.rcv_wnd = 65536

-----------------------------------------------------------------------------
(* SpecPoll: one Transport, bound and at first without peer; datagrams from *)
(* two addresses, well-formed or not, queue up in its UDP socket and        *)
(* Transport.poll reads them                                                *)

\* the most datagrams that wait in the socket
MaxPending == 2

\* a Packet of the model with its 32-bit fields as pairs, and back
WirePacket(p) ==
    [p EXCEPT !.seq = Wide(@), !.ts_send = Wide(@), !.ack = Wide(@),
              !.ts_echo = Wide(@),
              !.sack = [i \in 1..Len(@) |->
                          SackBlock(Wide(@[i].start), Wide(@[i].end))]]
MemPacket(w) ==
    [w EXCEPT !.seq = Narrow(@), !.ts_send = Narrow(@), !.ack = Narrow(@),
              !.ts_echo = Narrow(@),
              !.sack = [i \in 1..Len(@) |->
                          SackBlock(Narrow(@[i].start), Narrow(@[i].end))]]

\* the frame of a packet that to_bytes accepts
FrameOf(p) == ToBytes(WirePacket(p)).frame

\* well-formed datagrams: RELIABLE DATA, an ACK, a SACK
GoodDatagrams ==
    {FrameOf(DataPacket(RELIABLE, s, 7, StreamSlice(RELIABLE, s, 1))) : s \in 0..1}
    \cup {FrameOf(Packet(ACK, RELIABLE, 0, 0, <<>>, 1, WND_BYTES, 0, <<>>)),
          FrameOf(Packet(SACK, RELIABLE, 0, 0, <<>>, 0, WND_BYTES, 0,
                         <<SackBlock(0, 1)>>))}

\* datagrams from_bytes fails on: a short buffer, a bad type, a length
\* mismatch, a checksum mismatch, a bad SACK range, a reserved byte not 0
BadDatagrams ==
    LET data == FrameOf(DataPacket(RELIABLE, 0, 7, StreamSlice(RELIABLE, 0, 1)))
        sack == FrameOf(Packet(SACK, RELIABLE, 0, 0, <<>>, 0, WND_BYTES, 0,
                               <<SackBlock(0, 1)>>))
    IN {SubSeq(data, 1, 3),
        [data EXCEPT ![1] = 9],
        data \o <<0>>,
        [data EXCEPT ![15] = FlipBit(@, 0)],
        [sack EXCEPT ![34] = 0],
        [sack EXCEPT ![26] = 1]}

\* the addresses datagrams come from and connect() is called with
Addrs == {"peer", "other"}

\* window values a Transport is built with: the default of Transport and the
\* default of the --win option of the sending program
WindowValues == {WND_BYTES, CLI_WIN}

\* the entry the socket writes for sendto(raw, dst), put first in the log of
\* the call instead of last (not the code)
SendTo_First(log, pkt, dst) ==
    <<[ev |-> "sendto", typ |-> pkt.typ, chan |-> pkt.channel_type,
       addr |-> dst]>> \o log

\* Transport._send_pkt after to_bytes: sendto(raw, dst), as the next entry of
\* the log of what the call did at its socket
SendTo(log, pkt, dst) ==
    Append(log, [ev |-> "sendto", typ |-> pkt.typ, chan |-> pkt.channel_type,
                 addr |-> dst])

\* the log entries of _flush_due sending the packets out to dst
RECURSIVE FlushLog(_, _, _)
FlushLog(log, out, dst) ==
    IF out = <<>> THEN log
    ELSE FlushLog(SendTo(log, Head(out), dst), Tail(out), dst)

\* the peer learnt from every DATA frame, known or not (not the code)
LearnPeer_EveryData(p, pkt, src) == IF pkt.typ = DATA THEN src ELSE p

\* the peer after _on_inbound has decoded pkt, which came from src
LearnPeer(p, pkt, src) == IF p = NoPeer /\ pkt.typ = DATA THEN src ELSE p

\* Transport._on_inbound(raw, src) for the datagram d.  st holds the sender,
\* the receiver, the peer, the feedback frames sent, the log of the socket
\* (from_bytes of a datagram read, sendto), whether from_bytes raised, and
\* whether to_bytes of a feedback packet raised
OnInbound(st, d) ==
    LET dec == FromBytes(d.raw)
    IN IF ~dec.ok THEN [st EXCEPT !.raised = TRUE]
       ELSE
         LET pkt == MemPacket(dec.pkt)
             s1 == [st EXCEPT
                      !.peer = LearnPeer(@, pkt, d.src),
                      !.log = Append(@, [ev |-> "from_bytes", typ |-> pkt.typ,
                                         chan |-> pkt.channel_type,
                                         addr |-> d.src])]
         IN IF pkt.typ = DATA
            THEN LET res == OnData(s1.rcv, pkt)
                     s2 == [s1 EXCEPT !.rcv = res.rcv]
                 IN IF res.fb = None THEN s2
                    ELSE IF ~ToBytes(WirePacket(res.fb)).ok
                    THEN [s2 EXCEPT !.failed = TRUE]
                    ELSE [s2 EXCEPT !.out = @ \cup {res.fb},
                                    !.log = SendTo(@, res.fb, d.src)]
            ELSE IF pkt.typ \in {ACK, SACK}
            THEN [s1 EXCEPT !.snd = OnFeedback(@, pkt, now)]
            ELSE s1

\* the loop of poll: _on_inbound for the datagrams of q, in order, up to the
\* first one on which an exception leaves the loop; rest are the datagrams
\* not read
RECURSIVE OnInboundAll(_, _)
OnInboundAll(st, q) ==
    IF q = <<>> THEN [st EXCEPT !.rest = <<>>]
    ELSE LET s1 == OnInbound(st, Head(q))
         IN IF s1.raised \/ s1.failed THEN [s1 EXCEPT !.rest = Tail(q)]
            ELSE OnInboundAll(s1, Tail(q))

\* the state poll starts its loop with, after its first _flush_due
LoopStart(due, R, p) ==
    [snd |-> due.snd, rcv |-> R, peer |-> p, out |-> {},
     log |-> FlushLog(<<>>, due.out, p), raised |-> FALSE, failed |-> FALSE,
     rest |-> <<>>]

\* the datagrams of q that from_bytes decodes
Decodable(q) == SelectSeq(q, LAMBDA d : FromBytes(d.raw).ok)

\* a Transport after __init__ and bind(): a socket, no peer
InitPoll ==
    /\ snd = NewSender(Mss, Window, 100, TRUE)
    /\ \E wnd \in WindowValues : rcv = NewReceiver(wnd, TRUE)
    /\ now = 1000
    /\ net = {}
    /\ offered = 0
    /\ rel_stream = <<>>
    /\ popped = <<>>
    /\ tx_count = NoTx
    /\ last = NoCall
    /\ lost = 0
    /\ returned = <<>>
    /\ msg = None
    /\ frame = <<>>
    /\ sock = <<>>
    /\ pc = "app"
    /\ peer = NoPeer
    /\ sock_open = TRUE

\* Transport.connect(addr): a socket is made if there is none, the peer is
\* set
PollConnect ==
    \E addr \in Addrs :
       /\ peer' = addr
       /\ sock_open' = TRUE
       /\ last' = [op |-> "connect", addr |-> addr]
       /\ UNCHANGED <<returned, msg, frame, sock, pc>>
       /\ UNCHANGED <<lost, snd, rcv, now, net, offered, rel_stream, popped,
                      tx_count>>

\* Transport.close(): the socket is closed and forgotten, and with it the
\* datagrams waiting in it
PollClose ==
    /\ sock_open
    /\ sock_open' = FALSE
    /\ sock' = <<>>
    /\ last' = [op |-> "close"]
    /\ UNCHANGED <<returned, peer, msg, frame, pc>>
    /\ UNCHANGED <<lost, snd, rcv, now, net, offered, rel_stream, popped,
                   tx_count>>

\* Transport.send(data): offer, then _flush_due
PollSend ==
    LET off == Offer(snd, OfferData(1), <<0>>)
        res == FlushDue(off.snd, peer, sock_open, now)
    IN /\ offered + off.ret <= MaxSysBytes
       /\ snd' = res.snd
       /\ offered' = offered + off.ret
       /\ rel_stream' = rel_stream \o NewReliableBytes(snd, off.snd)
       /\ net' = net \cup Frames(res.out)
       /\ last' = [op |-> "send", log |-> FlushLog(<<>>, res.out, peer)]
       /\ UNCHANGED <<returned, peer, sock_open, msg, frame, sock, pc>>
       /\ UNCHANGED <<lost, rcv, now, popped, tx_count>>

\* a datagram from src arrives in the socket (the undecodable ones, whose
\* source is never looked at, from one address)
PollArrive ==
    \E raw \in GoodDatagrams \cup BadDatagrams, src \in Addrs :
       /\ sock_open
       /\ raw \in BadDatagrams => src = "other"
       /\ Len(sock) < MaxPending
       /\ sock' = Append(sock, [raw |-> raw, src |-> src])
       /\ last' = [op |-> "arrive"]
       /\ UNCHANGED <<returned, peer, sock_open, msg, frame, pc>>
       /\ UNCHANGED <<lost, snd, rcv, now, net, offered, rel_stream, popped, tx_count>>

\* Transport.poll(timeout_ms): _flush_due; without a socket or without a
\* waiting datagram poll returns; else recvfrom and _on_inbound for each
\* waiting datagram, then _flush_due.  A ValueError of from_bytes or of
\* to_bytes leaves poll at once
PollPoll ==
    \E due \in {FlushDue(snd, peer, sock_open, now)} :
      \E st \in {IF sock_open /\ sock # <<>>
                  THEN OnInboundAll(LoopStart(due, rcv, peer), sock)
                  ELSE LoopStart(due, rcv, peer)} :
        \E fin \in {IF sock_open /\ sock # <<>> /\ ~st.raised /\ ~st.failed
                     THEN FlushDue(st.snd, st.peer, sock_open, now)
                     ELSE [snd |-> st.snd, out |-> <<>>]} :
          /\ snd' = fin.snd
          /\ rcv' = st.rcv
          /\ peer' = st.peer
          /\ sock' = st.rest
          /\ net' = net \cup Frames(due.out) \cup st.out \cup Frames(fin.out)
          /\ last' = [op |-> "poll", raised |-> st.raised,
                      failed |-> st.failed,
                      log |-> FlushLog(st.log, fin.out, st.peer)]
          /\ UNCHANGED <<returned, sock_open, msg, frame, pc>>
          /\ UNCHANGED <<lost, now, offered, rel_stream, popped, tx_count>>

NextPoll == PollConnect \/ PollClose \/ PollSend \/ PollArrive \/ PollPoll

SpecPoll == InitPoll /\ [][NextPoll]_vars

\* C11 as stated: when an inbound datagram fails to decode, Transport.poll
\* discards it silently: no error reaches the caller of poll, sender and
\* receiver are left as the decodable datagrams alone leave them, and the
\* remaining datagrams waiting in the socket are processed in the same poll.
C11_PollDiscardsUndecodable ==
    [][(last'.op = "poll" /\ sock_open /\ sock # <<>>) =>
         LET due == FlushDue(snd, peer, sock_open, now)
             st == OnInboundAll(LoopStart(due, rcv, peer), Decodable(sock))
         IN /\ ~last'.raised
            /\ sock' = <<>>
            /\ rcv' = st.rcv
            /\ st.failed
                 \/ snd' = FlushDue(st.snd, st.peer, sock_open, now).snd]_vars
-----------------------------------------------------------------------------
(* Claims about has_unacked and the retransmission timer, checked under    *)
(* SpecSend                                                                *)

\* C21 as stated: has_unacked() is true exactly when the reliable in-flight
\* map holds at least one unacknowledged segment; unreliable segments do not
\* make it true once they have been emitted (so the equivalence is stated for
\* the states in which every unreliable segment has been emitted).
C21_HasUnackedIffReliableUnacked ==
    LET U == snd.inflight[UNRELIABLE]
        R == snd.inflight[RELIABLE]
    IN (\A s \in DOMAIN U : U[s].sent_ts # 0 \/ U[s].acked) =>
          (HasUnacked(snd) <=> \E s \in DOMAIN R : ~R[s].acked)

\* C22 as stated: due_packets emits a reliable segment only if the segment
\* has never been transmitted before or at least rto_ms milliseconds have
\* passed since its last transmission, whatever values the clock returns.
C22_NoEarlyReemission ==
    [][last'.op = "due_packets" =>
         \A s \in DOMAIN snd.inflight[RELIABLE] :
            TimesEmitted(RELIABLE, s)' > TimesEmitted(RELIABLE, s) =>
               \/ TimesEmitted(RELIABLE, s) = 0
               \/ now - snd.inflight[RELIABLE][s].sent_ts
                     >= snd.inflight[RELIABLE][s].rto_ms]_vars

\* the reliable segments a due_packets step emitted again, and those it
\* emitted for the first time
ReEmitted ==
    {s \in DOMAIN snd.inflight[RELIABLE] :
        /\ TimesEmitted(RELIABLE, s)' > TimesEmitted(RELIABLE, s)
        /\ TimesEmitted(RELIABLE, s) > 0}
FirstEmitted ==
    {s \in DOMAIN snd.inflight[RELIABLE] :
        /\ TimesEmitted(RELIABLE, s)' > TimesEmitted(RELIABLE, s)
        /\ TimesEmitted(RELIABLE, s) = 0}

\* C23 as stated: every re-emission of a reliable segment by due_packets adds
\* 1 to the segment's retx_count and to retx_total and sets rto_ms to
\* min(2 * rto_ms, 8000); a first emission changes none of the three and adds
\* 1 to sent_rel_segments; so sent_rel_segments is always the number of
\* distinct reliable segments transmitted.
C23_RetransmissionAccounting ==
    /\ snd.sent_rel_segments = Cardinality(DOMAIN tx_count[RELIABLE])
    /\ [][snd'.sent_rel_segments = Cardinality(DOMAIN tx_count'[RELIABLE])]_vars
    /\ [][last'.op = "due_packets" =>
            LET R == snd.inflight[RELIABLE]
                R1 == snd'.inflight[RELIABLE]
            IN /\ \A s \in ReEmitted :
                     /\ R1[s].retx_count = R[s].retx_count + 1
                     /\ R1[s].rto_ms = Min(2 * R[s].rto_ms, MAXIMUM_RTO_MS)
               /\ \A s \in FirstEmitted :
                     /\ R1[s].retx_count = R[s].retx_count
                     /\ R1[s].rto_ms = R[s].rto_ms
               /\ snd'.retx_total = snd.retx_total + Cardinality(ReEmitted)
               /\ snd'.sent_rel_segments =
                     snd.sent_rel_segments + Cardinality(FirstEmitted)]_vars

-----------------------------------------------------------------------------
(* SpecRto: a Sender of reliable segments whose clock starts at 1000 and   *)
(* advances in steps of three seconds, so that feedback can arrive seconds  *)
(* after the transmission it echoes                                        *)

RtoTickSteps == {3000}

InitRto ==
    /\ \E sack \in BOOLEAN : snd = NewSender(Mss, Window, 100, sack)
    /\ rcv = NewReceiver(WND_BYTES, TRUE)
    /\ now = 1000
    /\ net = {}
    /\ offered = 0
    /\ rel_stream = <<>>
    /\ popped = <<>>
    /\ tx_count = NoTx
    /\ last = NoCall
    /\ lost = 0
    /\ returned = <<>>
    /\ msg = None
    /\ frame = <<>>
    /\ sock = <<>>
    /\ pc = "app"
    /\ peer = "peer"
    /\ sock_open = TRUE

\* the clock advances
RtoTick ==
    \E d \in RtoTickSteps :
       /\ now + d <= MaxRtoNow
       /\ now' = now + d
       /\ last' = [op |-> "tick"]
       /\ UNCHANGED <<returned, peer, sock_open, msg, frame, sock, pc>>
       /\ UNCHANGED <<lost, snd, rcv, net, offered, rel_stream, popped, tx_count>>

NextRto == SendOffer \/ SendDue \/ SendFeedback \/ RtoTick

SpecRto == InitRto /\ [][NextRto]_vars

\* C24 as stated: in every reachable Sender state every segment of the
\* reliable in-flight map has MIN_RTO <= rto_ms <= 8000, after an RTT sample
\* refreshed the RTO as well.
C24_RtoWithinBounds ==
    \A s \in DOMAIN snd.inflight[RELIABLE] :
        /\ snd.inflight[RELIABLE][s].rto_ms >= MIN_RTO
        /\ snd.inflight[RELIABLE][s].rto_ms <= MAXIMUM_RTO_MS

\* C24 amended: every segment of the reliable in-flight map has
\* rto_ms >= MIN_RTO; a segment that has been retransmitted has
\* rto_ms <= 8000; a segment that has not holds the initial 1000 or the value
\* current_rto() returned at the last RTT sample, which has no upper bound.
C24_BackoffCapped ==
    \A s \in DOMAIN snd.inflight[RELIABLE] :
        LET seg == snd.inflight[RELIABLE][s]
        IN /\ seg.rto_ms >= MIN_RTO
           /\ seg.retx_count > 0 => seg.rto_ms <= MAXIMUM_RTO_MS
           /\ seg.retx_count = 0 =>
                 seg.rto_ms \in {INITIAL_SEG_RTO, CurrentRto(snd)}

\* a retransmission has just cut an RTO of more than 8000, written by an RTT
\* sample, down to the cap
C24_Witness ==
    /\ last.op = "due_packets"
    /\ CurrentRto(snd) > MAXIMUM_RTO_MS
    /\ \E s \in DOMAIN snd.inflight[RELIABLE] :
          /\ snd.inflight[RELIABLE][s].retx_count > 0
          /\ snd.inflight[RELIABLE][s].rto_ms = MAXIMUM_RTO_MS

-----------------------------------------------------------------------------
(* Claims about the RTO refresh, checked under SpecSend *)

\* C25: when on_feedback takes an RTT sample, the recomputed RTO is written
\* to every reliable in-flight segment whose retx_count is 0, sent or not yet
\* sent, and a segment that has been retransmitted keeps its rto_ms; without
\* a sample no rto_ms changes.
C25_RefreshOnlyUntouched ==
    [][last'.op = "on_feedback" =>
         \A s \in DOMAIN snd'.inflight[RELIABLE] :
            LET old == snd.inflight[RELIABLE][s]
                new == snd'.inflight[RELIABLE][s]
            IN IF snd'.rtt_cnt > snd.rtt_cnt /\ old.retx_count = 0
               THEN new.rto_ms = CurrentRto(snd')
               ELSE new.rto_ms = old.rto_ms]_vars

\* the last feedback echoed the timestamp of a segment never retransmitted,
\* which holds the recomputed RTO, while a retransmitted segment next to it
\* holds a different, backed-off one
C25_Witness ==
    /\ last.op = "on_feedback"
    /\ last.ts_echo # 0
    /\ snd.rtt_cnt > 0
    /\ \E s1, s2 \in DOMAIN snd.inflight[RELIABLE] :
          LET a == snd.inflight[RELIABLE][s1]
              b == snd.inflight[RELIABLE][s2]
          IN /\ a.sent_ts = last.ts_echo /\ a.retx_count = 0
             /\ a.rto_ms = CurrentRto(snd)
             /\ b.retx_count > 0
             /\ b.rto_ms # CurrentRto(snd)

-----------------------------------------------------------------------------
(* Claims about the list due_packets returns, checked under SpecSeg *)

\* C26: in the list one due_packets call returns, every packet is a DATA
\* packet, every UNRELIABLE packet comes before every RELIABLE one, and the
\* RELIABLE packets are in strictly ascending seq order.
C26_DueOrder ==
    last.op = "due_packets" =>
        /\ \A i \in 1..Len(last.out) : last.out[i].typ = DATA
        /\ \A i, j \in 1..Len(last.out) :
              i < j =>
                 /\ ~(/\ last.out[i].channel_type = RELIABLE
                      /\ last.out[j].channel_type = UNRELIABLE)
                 /\ (/\ last.out[i].channel_type = RELIABLE
                     /\ last.out[j].channel_type = RELIABLE)
                       => last.out[i].seq < last.out[j].seq

\* one due_packets call returned two UNRELIABLE and two RELIABLE packets
C26_Witness ==
    /\ last.op = "due_packets"
    /\ \A c \in Chan :
          Cardinality({i \in 1..Len(last.out) :
                          last.out[i].channel_type = c}) >= 2

-----------------------------------------------------------------------------
(* Claims about the feedback of the Receiver, checked under SpecRecv *)

\* the receiver buffers data that reaches above rcv_nxt
BufferedAbove(R) ==
    \E k \in DOMAIN R.buf : k + Len(R.buf[k]) > R.rcv_nxt

\* C27: the feedback on_data returns for a RELIABLE DATA packet carries
\* ack = seq = rcv_nxt after the call, rcv_wnd = wnd_bytes, ts_send = 0,
\* ts_echo = the packet's ts_send, channel RELIABLE and an empty payload; it
\* is a SACK exactly when sack_enabled and data is buffered above rcv_nxt,
\* and an ACK without blocks otherwise.
C27_FeedbackFields ==
    (last.op = "on_data" /\ last.chan = RELIABLE) =>
        /\ last.ret.ack = rcv.rcv_nxt
        /\ last.ret.seq = rcv.rcv_nxt
        /\ last.ret.rcv_wnd = rcv.wnd_bytes
        /\ last.ret.ts_send = 0
        /\ last.ret.ts_echo = last.ts
        /\ last.ret.channel_type = RELIABLE
        /\ last.ret.payload = <<>>
        /\ last.ret.typ \in {ACK, SACK}
        /\ last.ret.typ = SACK <=> (rcv.sack_enabled /\ BufferedAbove(rcv))
        /\ last.ret.typ = SACK => last.ret.sack # <<>>
        /\ last.ret.typ = ACK => last.ret.sack = <<>>

\* a packet advanced rcv_nxt while data stays buffered above a gap: the
\* feedback is a SACK with a non-zero ack
C27_Witness ==
    /\ last.op = "on_data" /\ last.chan = RELIABLE
    /\ last.ret.typ = SACK
    /\ last.was < rcv.rcv_nxt
    /\ last.ret.ts_echo # 0

-----------------------------------------------------------------------------
(* SpecSack: a Receiver with SACK enabled fed short DATA packets cut from  *)
(* a stream long enough for more than SACK_LIMIT separate buffered spans   *)

\* the (seq, length) of the DATA packets: the single bytes at the odd
\* offsets, which lie apart from one another, and the slices of
\* 2..MaxSackLen bytes at the even offsets, which touch or overlap them
SackSlices ==
    {<<s, n>> \in (0..SackStreamLen) \X (1..MaxSackLen) :
        /\ s + n <= SackStreamLen
        /\ (s % 2 = 1) <=> (n = 1)}

InitSack ==
    /\ rcv = NewReceiver(WND_BYTES, TRUE)
    /\ snd = NewSender(1, 0, 100, TRUE)
    /\ now = 0
    /\ net = {}
    /\ offered = 0
    /\ rel_stream = StreamSlice(RELIABLE, 0, SackStreamLen)
    /\ popped = <<>>
    /\ tx_count = NoTx
    /\ last = NoCall
    /\ lost = 0
    /\ returned = <<>>
    /\ msg = None
    /\ frame = <<>>
    /\ sock = <<>>
    /\ pc = "app"
    /\ peer = "peer"
    /\ sock_open = TRUE

\* receiver.on_data(pkt), pkt a RELIABLE DATA packet cut from the stream
SackOnData ==
    \E sl \in SackSlices, ts \in TsValues :
        LET pkt == DataPacket(RELIABLE, sl[1], ts,
                              StreamSlice(RELIABLE, sl[1], sl[2]))
            res == OnData(rcv, pkt)
        IN /\ rcv' = res.rcv
           /\ last' = [op |-> "on_data", chan |-> RELIABLE, seq |-> sl[1],
                       len |-> sl[2], ts |-> ts, was |-> rcv.rcv_nxt,
                       ret |-> res.fb]
           /\ UNCHANGED <<returned, peer, sock_open, msg, frame, sock, pc>>
           /\ UNCHANGED <<lost, snd, now, net, offered, rel_stream, popped, tx_count>>

SpecSack == InitSack /\ [][SackOnData]_vars

\* Claims about the SACK blocks, checked under SpecSack

\* the offsets of the stream, from rcv_nxt on, that some buffer entry holds
Covered(R) ==
    {b \in R.rcv_nxt..Len(rel_stream) :
        \E k \in DOMAIN R.buf : k <= b /\ b < k + Len(R.buf[k])}

\* the maximal runs [s, e) of buffered offsets from rcv_nxt on
MaximalSpans(R) ==
    LET C == Covered(R)
    IN {x \in C \X (0..Len(rel_stream)) :
           /\ x[1] < x[2]
           /\ (x[1] - 1) \notin C
           /\ x[2] \notin C
           /\ \A b \in x[1]..(x[2] - 1) : b \in C}

\* C28: the SACK blocks of a feedback packet are maximal spans of buffered
\* data, overlapping or touching entries merged into one block, in strictly
\* descending order of start; they number min(4, number of spans), and with
\* more than 4 spans the 4 with the highest start are reported.  With SACK
\* enabled the feedback is an ACK only when nothing is buffered above rcv_nxt.
C28_SackBlocksMergedDescending ==
    (last.op = "on_data" /\ rcv.sack_enabled) =>
        LET b == last.ret.sack
            M == MaximalSpans(rcv)
            reported == {<<b[i].start, b[i].end>> : i \in 1..Len(b)}
        IN /\ Len(b) = Min(SACK_LIMIT, Cardinality(M))
           /\ reported \subseteq M
           /\ \A i, j \in 1..Len(b) : i < j => b[i].start > b[j].start
           /\ \A m \in M \ reported : \A i \in 1..Len(b) : m[1] < b[i].start
           /\ last.ret.typ = ACK <=> M = {}

\* five separate spans are buffered, the four highest are reported, and one
\* of them was merged from touching entries
C28_Witness ==
    /\ last.op = "on_data"
    /\ last.ret.typ = SACK
    /\ Len(last.ret.sack) = SACK_LIMIT
    /\ Cardinality(MaximalSpans(rcv)) > SACK_LIMIT
    /\ \E i \in 1..Len(last.ret.sack) :
          last.ret.sack[i].end - last.ret.sack[i].start > MaxSackLen

-----------------------------------------------------------------------------
(* Claims about the reassembly buffer, checked under SpecRecv *)

\* C29 as stated: every SACK block the receiver reports lies strictly above
\* rcv_nxt (start > rcv_nxt), after any sequence of on_data calls, packets
\* that overlap buffered or delivered ranges included.
C29_SackBlocksStrictlyAbove ==
    (last.op = "on_data" /\ last.chan = RELIABLE) =>
        \A i \in 1..Len(last.ret.sack) :
            last.ret.sack[i].start > rcv.rcv_nxt

\* C30 as stated: after any sequence of on_data calls no entry of the
\* reassembly buffer lies entirely at or below rcv_nxt and no entry starts
\* below rcv_nxt: no entry is left behind once rcv_nxt has passed it.
C30_NoStaleBufferEntry ==
    \A k \in DOMAIN rcv.buf :
        /\ ~(k + Len(rcv.buf[k]) <= rcv.rcv_nxt)
        /\ ~(k < rcv.rcv_nxt)

-----------------------------------------------------------------------------
(* Claims about the unreliable channel of the receiver, checked under
   SpecRecv *)

-----------------------------------------------------------------------------
(* Claims about feedback that acknowledges nothing, checked under SpecSend *)

\* the feedback packet names no in-flight reliable segment: its cumulative
\* acknowledgement is below the end of every segment and none of its blocks
\* overlaps a segment
CoversNoSegment(S, pkt) ==
    \A s \in DOMAIN S.inflight[RELIABLE] :
        LET seg == S.inflight[RELIABLE][s]
        IN /\ seg.end > pkt.ack
           /\ \A i \in 1..Len(pkt.sack) :
                  seg.seq >= pkt.sack[i].end \/ seg.end <= pkt.sack[i].start

\* the echoed timestamp is the one of a never-retransmitted in-flight segment
EchoesFirstTransmission(S, pkt) ==
    /\ pkt.ts_echo # 0
    /\ \E s \in DOMAIN S.inflight[RELIABLE] :
           /\ S.inflight[RELIABLE][s].sent_ts = pkt.ts_echo
           /\ S.inflight[RELIABLE][s].retx_count = 0

\* the sender after on_feedback(pkt), compared with the sender S before:
\* nothing of S changed
Ignored(S, pkt) == OnFeedback(S, pkt, now) = S

\* C32 as stated: on_feedback with a packet that is neither ACK nor SACK
\* changes no sender state; with an ACK or SACK that covers no in-flight
\* segment it leaves the in-flight maps and bytes_inflight unchanged.  (The
\* code of on_feedback has no statement that raises.)
C32_SpuriousFeedbackChangesNothing ==
    \A pkt \in FeedbackInputs(snd) :
        LET S2 == OnFeedback(snd, pkt, now)
        IN /\ pkt.typ \notin {ACK, SACK} => Ignored(snd, pkt)
           /\ (pkt.typ \in {ACK, SACK} /\ CoversNoSegment(snd, pkt))
                 => /\ S2.inflight = snd.inflight
                    /\ S2.bytes_inflight = snd.bytes_inflight

\* C32, amended: a packet that is neither ACK nor SACK changes no sender
\* state.  An ACK or SACK that covers no in-flight segment removes no segment
\* and marks none acknowledged, and leaves bytes_inflight and the unreliable
\* map unchanged; of a segment it changes at most rto_ms, and only when the
\* echoed timestamp is that of a never-retransmitted in-flight segment, and
\* then only on segments with retx_count = 0.  Without such an echo the whole
\* sender state is unchanged.
C32_SpuriousFeedbackKeepsSegments ==
    \A pkt \in FeedbackInputs(snd) :
        LET S2 == OnFeedback(snd, pkt, now)
        IN /\ pkt.typ \notin {ACK, SACK} => Ignored(snd, pkt)
           /\ (pkt.typ \in {ACK, SACK} /\ CoversNoSegment(snd, pkt))
                 => /\ S2.bytes_inflight = snd.bytes_inflight
                    /\ S2.inflight[UNRELIABLE] = snd.inflight[UNRELIABLE]
                    /\ DOMAIN S2.inflight[RELIABLE]
                          = DOMAIN snd.inflight[RELIABLE]
                    /\ \A s \in DOMAIN snd.inflight[RELIABLE] :
                          LET seg == snd.inflight[RELIABLE][s]
                              seg2 == S2.inflight[RELIABLE][s]
                          IN /\ [seg2 EXCEPT !.rto_ms = seg.rto_ms] = seg
                             /\ seg2.rto_ms # seg.rto_ms =>
                                   /\ seg.retx_count = 0
                                   /\ EchoesFirstTransmission(snd, pkt)
                    /\ ~EchoesFirstTransmission(snd, pkt) => Ignored(snd, pkt)

\* on_feedback took a round-trip sample and rewrote the rto_ms of a segment
\* while no reliable segment had ever been acknowledged: the feedback
\* covered no segment, and the segments are all still in flight
C32_Witness ==
    /\ last.op = "on_feedback"
    /\ last.ts_echo # 0
    /\ snd.rtt_cnt > 0
    /\ snd.bytes_inflight = offered
    /\ Cardinality(DOMAIN snd.inflight[RELIABLE]) * Mss = Len(rel_stream)
    /\ \E s \in DOMAIN snd.inflight[RELIABLE] :
          /\ snd.inflight[RELIABLE][s].sent_ts = last.ts_echo
          /\ snd.inflight[RELIABLE][s].rto_ms # INITIAL_SEG_RTO

-----------------------------------------------------------------------------
(* Claims about Transport.recv, checked under SpecSys *)

\* C35 as stated: no byte delivered by the receiver is lost by
\* Transport.recv: after any sequence of recv calls with any max_bytes values
\* the concatenation of their results, followed by what still waits in the
\* delivered queue, is everything the receiver has handed to that queue, so
\* that bytes beyond max_bytes in one call are returned by later calls.
C35_RecvLosesNoByte == returned \o rcv.delivered = AllDelivered

-----------------------------------------------------------------------------
(* Claims about acknowledgement between the two sides, checked under
   SpecSys, where every frame sent stays deliverable any number of times and
   in any order, and may never be delivered *)

\* C36: the sender removes a reliable segment from its in-flight map only
\* after the peer receiver holds every byte of that segment, delivered or
\* buffered: every accepted reliable byte that is no longer in flight is
\* below rcv_nxt or inside a buffer entry of the receiver, under any loss,
\* duplication and reordering of DATA and feedback frames.
C36_RemovedOnlyWhenReceiverHolds ==
    \A k \in 0..(Len(rel_stream) - 1) :
        ~InFlight(snd, k) => ReceiverHolds(rcv, k, k + 1)

\* a segment left the in-flight map on a SACK while its bytes wait in the
\* reassembly buffer behind a gap, and the segment before it is still in
\* flight
C36_Witness ==
    /\ last.op = "on_inbound" /\ last.typ = SACK
    /\ \E k \in 1..(Len(rel_stream) - 1) :
          /\ ~InFlight(snd, k)
          /\ InFlight(snd, k - 1)
          /\ k > rcv.rcv_nxt
          /\ k \in DOMAIN rcv.buf

\* the feedback frame pkt answers a retransmission: a retransmission was
\* stamped with the timestamp it echoes, and of the reliable DATA frames with
\* that timestamp the receiver can only have processed retransmissions (it
\* holds the bytes of no other one)
EchoesRetransmission(pkt) ==
    LET R == snd.inflight[RELIABLE]
        Retransmitted(s) ==
            /\ s \in DOMAIN R
            /\ R[s].retx_count > 0
            /\ R[s].sent_ts = pkt.ts_echo
    IN /\ pkt.ts_echo # 0
       /\ \E s \in DOMAIN R : Retransmitted(s)
       /\ \A f \in net :
             (/\ f.typ = DATA
              /\ f.channel_type = RELIABLE
              /\ f.ts_send = pkt.ts_echo
              /\ ReceiverHolds(rcv, f.seq, f.seq + Len(f.payload)))
                => Retransmitted(f.seq)

\* C37 as stated: feedback that echoes the timestamp of a retransmission (a
\* DATA frame emitted for a segment with retx_count > 0) never changes srtt
\* or rttvar, even when other segments were first transmitted in the same
\* due_packets call or at the same clock value.
C37_RetransmissionEchoTakesNoSample ==
    \A pkt \in {f \in net : f.typ \in {ACK, SACK}} :
        EchoesRetransmission(pkt) =>
            LET S2 == OnFeedback(snd, pkt, now)
            IN S2.srtt = snd.srtt /\ S2.rttvar = snd.rttvar

-----------------------------------------------------------------------------
(* Claims about the send window over time, checked under SpecSend *)

\* C38 as stated: the send window is never permanently exhausted: in any
\* state where every reliable segment has been acknowledged and due_packets
\* has emitted every unreliable segment, offer of non-empty data accepts
\* min(len(data), window) bytes, however many unreliable bytes were sent
\* before.
C38_WindowNotExhausted ==
    [][(/\ last'.op = "offer"
        /\ last'.n > 0
        /\ DOMAIN snd.inflight[RELIABLE] = {}
        /\ \A s \in DOMAIN snd.inflight[UNRELIABLE] :
               TimesEmitted(UNRELIABLE, s) > 0)
          => last'.ret = Min(last'.n, snd.win)]_vars

-----------------------------------------------------------------------------
(* Claims about inbound processing of the Transport, checked under SpecPoll,
   where last.log lists, in order, what a call did at its socket: from_bytes
   of a datagram read (with its source) and sendto (with its destination) *)

\* the entry i of log L is a RELIABLE DATA frame decoded, for which on_data
\* returns feedback
DataDecoded(L, i) ==
    L[i].ev = "from_bytes" /\ L[i].typ = DATA /\ L[i].chan = RELIABLE

\* the entry i of log L is a feedback frame sent
FeedbackSent(L, i) == L[i].ev = "sendto" /\ L[i].typ \in {ACK, SACK}

\* C33: in Transport.poll, the feedback frame generated by processing an
\* inbound DATA frame is handed to the socket, addressed to that frame's
\* source, before the next waiting inbound frame is decoded or dispatched:
\* in the log of a poll the entry after a decoded DATA frame is the sendto of
\* its feedback (unless encoding the feedback failed, which ends the poll),
\* and feedback is sent at no other point.
C33_FeedbackBeforeNextFrame ==
    last.op = "poll" =>
        LET L == last.log
        IN /\ \A i \in 1..Len(L) :
                DataDecoded(L, i) =>
                    \/ /\ i < Len(L)
                       /\ FeedbackSent(L, i + 1)
                       /\ L[i + 1].addr = L[i].addr
                    \/ i = Len(L) /\ last.failed
           /\ \A i \in 1..Len(L) :
                FeedbackSent(L, i) => i > 1 /\ DataDecoded(L, i - 1)

\* one poll read two DATA frames from different sources and answered each
\* before decoding the next
C33_Witness ==
    /\ last.op = "poll"
    /\ Len(last.log) >= 4
    /\ \E i \in 1..(Len(last.log) - 3) :
          /\ DataDecoded(last.log, i)
          /\ FeedbackSent(last.log, i + 1)
          /\ DataDecoded(last.log, i + 2)
          /\ FeedbackSent(last.log, i + 3)
          /\ last.log[i].addr # last.log[i + 2].addr
          /\ last.log[i + 3].addr = last.log[i + 2].addr

\* the positions of the DATA frames decoded in log L
DataReads(L) == {i \in 1..Len(L) : L[i].ev = "from_bytes" /\ L[i].typ = DATA}

\* the log of the call that made the step, if the call keeps one
CallLog(l) == IF l.op \in {"poll", "send"} THEN l.log ELSE <<>>

\* C34: if no peer is known, processing an inbound DATA frame sets the peer
\* to that frame's source address; in every other case (peer known, or the
\* frame is ACK, SACK or CTRL) inbound processing leaves the peer unchanged;
\* so DATA is only ever flushed to the connected or first-learned peer.
C34_PeerLearnedOnce ==
    [][/\ last'.op = "poll" =>
            LET D == DataReads(last'.log)
            IN peer' = IF peer = NoPeer /\ D # {}
                       THEN last'.log[CHOOSE i \in D : \A j \in D : i <= j].addr
                       ELSE peer
       /\ last'.op \notin {"poll", "connect"} => peer' = peer
       /\ \A i \in 1..Len(CallLog(last')) :
            LET e == CallLog(last')[i]
            IN (e.ev = "sendto" /\ e.typ = DATA) =>
                  /\ e.addr # NoPeer
                  /\ e.addr = peer'
                  /\ peer # NoPeer => e.addr = peer]_vars

\* a poll without a peer read a DATA frame from one address and then one from
\* another: the first became the peer, and the data accepted before was
\* flushed to it
C34_Witness ==
    /\ last.op = "poll"
    /\ peer = "other"
    /\ \E i, j \in DataReads(last.log) :
          /\ i < j
          /\ last.log[i].addr = "other"
          /\ last.log[j].addr = "peer"
          /\ \A k \in DataReads(last.log) : i <= k
    /\ \E i \in 1..Len(last.log) :
          /\ last.log[i].ev = "sendto"
          /\ last.log[i].typ = DATA
          /\ last.log[i].addr = "other"

\* C40 as stated: every feedback packet the Receiver returns from on_data is
\* accepted by to_bytes, for every window value with which a Transport can be
\* constructed, so processing inbound DATA never fails while sending its
\* feedback.
C40_FeedbackAlwaysEncodes == last.op = "poll" => ~last.failed

-----------------------------------------------------------------------------
(* SpecClose: the fair system of SpecDrain with a sending Transport that   *)
(* starts as __init__ leaves it, without socket and without peer, or        *)
(* connected, and an application that may call close() between its sends    *)

\* a Transport after __init__, without socket and peer, or after __init__ and
\* connect(), with both
InitClose ==
    /\ \E sack \in BOOLEAN :
         /\ snd = NewSender(Mss, Window, 50, sack)
         /\ rcv = NewReceiver(Window, sack)
    /\ now = 1000
    /\ net = {}
    /\ offered = 0
    /\ rel_stream = <<>>
    /\ popped = <<>>
    /\ tx_count = NoTx
    /\ last = NoCall
    /\ lost = 0
    /\ returned = <<>>
    /\ msg = None
    /\ frame = <<>>
    /\ sock = <<>>
    /\ pc = "app"
    /\ \E p \in {NoPeer, "peer"} : peer = p /\ sock_open = (p # NoPeer)

NextClose ==
    \/ pc = "app" /\ PollClose
    \/ NextDrain

\* the fairness of SpecDrain: the loop of drain keeps running, the peer keeps
\* polling, the network hands over the frames it does not lose, and the
\* clock keeps advancing
SpecClose ==
    /\ InitClose /\ [][NextClose]_vars
    /\ WF_vars(DrainFlush)
    /\ WF_vars(DrainOnFeedback)
    /\ WF_vars(DrainReturn)
    /\ WF_vars(LiveOnData)
    /\ WF_vars(LiveTick)

\* C39 as stated: Transport.drain terminates from every reachable Transport
\* state, including when data has been accepted by send but no peer is
\* known, and after close().
C39_DrainAlwaysTerminates == (pc = "drain") ~> (pc = "app")

=============================================================================
